---- MODULE Spec2Model ----
(***************************************************************************)
(* Model of the chat application: the streaming response decoder of the    *)
(* front end (invoke_agent_stream in src/frontend/runtime.py), the turn of *)
(* main_app that consumes it (src/frontend/app.py), the request the front  *)
(* end builds, the backend entry points (src/backend/src/main.py,          *)
(* src/agent/app.py), the pagination loops over the memory store and the   *)
(* gateway, and the OAuth2 callback of src/frontend/identity.py.  Each     *)
(* part has its own variables and its own specification; a specification   *)
(* leaves the variables of the other parts at rest.                        *)
(*                                                                         *)
(* A response is an HTTP status and a body, a sequence of lines as         *)
(* response.iter_lines() delivers them.  A line is a sequence of lexical   *)
(* pieces ("tokens"), each standing for a fixed byte string: the literal   *)
(* prefix, punctuation, a quoted string, a JSON literal, a blank, plain    *)
(* text, or a byte that is not valid UTF-8.  json.loads is modelled by a   *)
(* recursive-descent parser over the tokens, and the dictionary / list /   *)
(* string operations of the handler by operators that return either a      *)
(* value or the exception Python raises.                                   *)
(***************************************************************************)
EXTENDS Integers, Sequences, FiniteSets, TLC

\* The decoder: the response, the generator and its connection.
VARIABLES status_code, body, pc, pos, event, out, src, exc, conn
\* The turn of main_app that consumes the decoder's events.
VARIABLES app, buffer, messages, title, handled
\* The session state of main_app over its runs, and the requests it has
\* made.
VARIABLES access_token, actor_id, current_thread_id, threads, sent
VARIABLES memory_sessions_loaded, fetched, fpc
\* A backend entry point and what it has done with one payload.
VARIABLES entry, payload, bpc, replies, made
\* A pagination loop and the store it reads.
VARIABLES loop, pages, mpc, next_token, requests, collected, result
\* The OAuth2 callback: the query parameters of the URL and the calls made.
VARIABLES query_params, calls, cpc, returned

decoderVars == <<status_code, body, pc, pos, event, out, src, exc, conn>>
turnVars == <<app, buffer, messages, title, handled>>
frontVars == <<access_token, actor_id, current_thread_id, threads, sent,
               memory_sessions_loaded, fetched, fpc>>
backendVars == <<entry, payload, bpc, replies, made>>
memoryVars == <<loop, pages, mpc, next_token, requests, collected, result>>
oauthVars == <<query_params, calls, cpc, returned>>

vars == <<decoderVars, turnVars, frontVars, backendVars, memoryVars, oauthVars>>

(***************************************************************************)
(* Bounds of the model.                                                    *)
(***************************************************************************)
MaxLines == 2
MaxTurnLines == 3
MaxPages == 2

(***************************************************************************)
(* Bytes of a line.  Tok(k, v): k is the kind of the piece, v its text.    *)
(*   "raw"  plain ASCII text with no JSON meaning                          *)
(*   "p"    one punctuation character of JSON                              *)
(*   "dq"   a string literal in double quotes; v is its content            *)
(*   "sq"   text that begins with a single quote                           *)
(*   "lit"  a JSON literal: a number, null, true, false                    *)
(*   "ws"   one blank                                                      *)
(*   "bad"  a byte that is not valid UTF-8                                 *)
(***************************************************************************)
Tok(k, v) == [k |-> k, v |-> v]

DataPrefix == Tok("raw", "data: ")
DataColon == Tok("raw", "data:")
Blank == Tok("ws", " ")
LBrace == Tok("p", "{")
RBrace == Tok("p", "}")
LBrack == Tok("p", "[")
RBrack == Tok("p", "]")
Colon == Tok("p", ":")
Comma == Tok("p", ",")
BadByte == Tok("bad", "\\xff")
DQ(s) == Tok("dq", s)
Lit(s) == Tok("lit", s)

(***************************************************************************)
(* Python values as json.loads builds them.  One record shape for all:     *)
(* t is the type, s the text of a str or of a number, keys/vals the items  *)
(* of a dict in insertion order, vals alone the items of a list.           *)
(***************************************************************************)
JVal(t, s, keys, vals) == [t |-> t, s |-> s, keys |-> keys, vals |-> vals]
JStr(s) == JVal("str", s, <<>>, <<>>)
JNum(s) == JVal("num", s, <<>>, <<>>)
JNull == JVal("null", "", <<>>, <<>>)
JBool(s) == JVal("bool", s, <<>>, <<>>)
JList(items) == JVal("list", "", <<>>, items)
JObj(keys, vals) == JVal("obj", "", keys, vals)
EmptyDict == JObj(<<>>, <<>>)

Range(f) == {f[i] : i \in DOMAIN f}

\* dict[key] = val: a repeated key keeps its place and takes the new value.
DictPut(d, key, val) ==
    IF key \in Range(d.keys)
    THEN JObj(d.keys, [i \in DOMAIN d.vals |-> IF d.keys[i] = key THEN val ELSE d.vals[i]])
    ELSE JObj(Append(d.keys, key), Append(d.vals, val))

DictAt(d, key) == d.vals[CHOOSE i \in DOMAIN d.keys : d.keys[i] = key]

LitValue(s) ==
    CASE s = "null" -> JNull
      [] s \in {"true", "false"} -> JBool(s)
      [] OTHER -> JNum(s)

(***************************************************************************)
(* json.loads over the tokens of a payload.  A parse step returns          *)
(* [ok, val, next]: next is the index of the first token not consumed.     *)
(***************************************************************************)
ParseFail == [ok |-> FALSE, val |-> JNull, next |-> 0]
ParseOk(v, n) == [ok |-> TRUE, val |-> v, next |-> n]

RECURSIVE SkipWs(_, _)
SkipWs(toks, i) ==
    IF i <= Len(toks) /\ toks[i].k = "ws" THEN SkipWs(toks, i + 1) ELSE i

RECURSIVE ParseValue(_, _)
RECURSIVE ParseMembers(_, _, _)
RECURSIVE ParseElements(_, _, _)

ParseValue(toks, i) ==
    LET j == SkipWs(toks, i) IN
    IF j > Len(toks) THEN ParseFail
    ELSE LET t == toks[j] IN
         CASE t.k = "dq" -> ParseOk(JStr(t.v), j + 1)
           [] t.k = "lit" -> ParseOk(LitValue(t.v), j + 1)
           [] t = LBrace ->
                LET n == SkipWs(toks, j + 1) IN
                IF n <= Len(toks) /\ toks[n] = RBrace
                THEN ParseOk(EmptyDict, n + 1)
                ELSE ParseMembers(toks, n, EmptyDict)
           [] t = LBrack ->
                LET n == SkipWs(toks, j + 1) IN
                IF n <= Len(toks) /\ toks[n] = RBrack
                THEN ParseOk(JList(<<>>), n + 1)
                ELSE ParseElements(toks, n, <<>>)
           [] OTHER -> ParseFail

\* "key" : value, then a comma and more members, or the closing brace.
ParseMembers(toks, i, acc) ==
    LET k == SkipWs(toks, i)
        c == SkipWs(toks, k + 1)
    IN  IF k > Len(toks) \/ c > Len(toks) THEN ParseFail
        ELSE IF toks[k].k # "dq" \/ toks[c] # Colon THEN ParseFail
        ELSE LET r == ParseValue(toks, c + 1) IN
             IF ~r.ok THEN ParseFail
             ELSE LET n == SkipWs(toks, r.next)
                      d == DictPut(acc, toks[k].v, r.val)
                  IN  IF n > Len(toks) THEN ParseFail
                      ELSE IF toks[n] = RBrace THEN ParseOk(d, n + 1)
                      ELSE IF toks[n] = Comma THEN ParseMembers(toks, n + 1, d)
                      ELSE ParseFail

\* value, then a comma and more elements, or the closing bracket.
ParseElements(toks, i, acc) ==
    LET r == ParseValue(toks, i) IN
    IF ~r.ok THEN ParseFail
    ELSE LET n == SkipWs(toks, r.next)
             a == Append(acc, r.val)
         IN  IF n > Len(toks) THEN ParseFail
             ELSE IF toks[n] = RBrack THEN ParseOk(JList(a), n + 1)
             ELSE IF toks[n] = Comma THEN ParseElements(toks, n + 1, a)
             ELSE ParseFail

\* json.loads(data): one value and nothing but blanks after it, else
\* json.JSONDecodeError.
json_loads(data) ==
    LET r == ParseValue(data, 1) IN
    IF r.ok /\ SkipWs(data, r.next) > Len(data)
    THEN [exc |-> "", val |-> r.val]
    ELSE [exc |-> "JSONDecodeError", val |-> JNull]

(***************************************************************************)
(* Python's operations on the parsed value.  Each returns [exc, val]: exc  *)
(* is "" and val the result, or exc names the exception raised.            *)
(***************************************************************************)
Ok(v) == [exc |-> "", val |-> v]
Raise(e) == [exc |-> e, val |-> JNull]

\* sub in s for two str: the pairs of the model's strings where sub is a
\* proper substring of s; every string contains itself.
ProperSubstrings == {<<"event", "an event">>}
IsSubstring(sub, s) == sub = s \/ <<sub, s>> \in ProperSubstrings

\* key in c
PyContains(key, c) ==
    CASE c.t = "obj" -> Ok(key \in Range(c.keys))
      [] c.t = "list" -> Ok(JStr(key) \in Range(c.vals))
      [] c.t = "str" -> Ok(IsSubstring(key, c.s))
      [] OTHER -> Raise("TypeError")

\* c[key] for a str key
PyGetItem(c, key) ==
    CASE c.t = "obj" -> IF key \in Range(c.keys) THEN Ok(DictAt(c, key)) ELSE Raise("KeyError")
      [] OTHER -> Raise("TypeError")

\* c.get(key, default)
PyGet(c, key, default) ==
    IF c.t = "obj"
    THEN Ok(IF key \in Range(c.keys) THEN DictAt(c, key) ELSE default)
    ELSE Raise("AttributeError")

\* isinstance(v, str)
IsStr(v) == v.t = "str"

\* bool(v)
Truthy(v) ==
    CASE v.t = "str" -> v.s # ""
      [] v.t = "num" -> v.s # "0"
      [] v.t = "null" -> FALSE
      [] v.t = "bool" -> v.s = "true"
      [] OTHER -> Len(v.vals) > 0

\* a[k1][k2]...: subscripting along a path of str keys.
RECURSIVE PyPath(_, _)
PyPath(c, path) ==
    IF path = <<>> THEN Ok(c)
    ELSE LET r == PyGetItem(c, Head(path)) IN
         IF r.exc # "" THEN r ELSE PyPath(r.val, Tail(path))

(***************************************************************************)
(* The two detection blocks of the handler.  Each returns                  *)
(* [exc, yields, ev]: the exception that leaves the block, or whether it   *)
(* yields and the event it yields.                                         *)
(***************************************************************************)
NoYield == [exc |-> "", yields |-> FALSE, ev |-> [type |-> "none"]]
Yield(e) == [exc |-> "", yields |-> TRUE, ev |-> e]
Throw(e) == [exc |-> e, yields |-> FALSE, ev |-> [type |-> "none"]]

\* "event" in e and name in e["event"]
HasEventKey(e, name) ==
    LET a == PyContains("event", e) IN
    IF a.exc # "" \/ ~a.val THEN a
    ELSE LET ev == PyGetItem(e, "event") IN
         IF ev.exc # "" THEN ev ELSE PyContains(name, ev.val)

\* Line 83: the declared name of the tool, "unknown" when there is none.
ToolNameNoDefault(toolUse) == PyGet(toolUse, "name", JStr(""))
ToolName(toolUse) == PyGet(toolUse, "name", JStr("unknown"))

ToolDetect(e) ==
    LET c1 == HasEventKey(e, "contentBlockStart") IN
    IF c1.exc # "" THEN Throw(c1.exc)
    ELSE IF ~c1.val THEN NoYield
    ELSE LET cbs == PyPath(e, <<"event", "contentBlockStart">>) IN
         IF cbs.exc # "" THEN Throw(cbs.exc)
         ELSE LET start == PyGet(cbs.val, "start", EmptyDict) IN
              IF start.exc # "" THEN Throw(start.exc)
              ELSE LET c2 == PyContains("toolUse", start.val) IN
                   IF c2.exc # "" THEN Throw(c2.exc)
                   ELSE IF ~c2.val THEN NoYield
                   ELSE LET tu == PyPath(e, <<"event", "contentBlockStart", "start", "toolUse">>) IN
                        IF tu.exc # "" THEN Throw(tu.exc)
                        ELSE LET tool_name == ToolName(tu.val) IN
                             IF tool_name.exc # "" THEN Throw(tool_name.exc)
                             ELSE Yield([type |-> "tool_use", tool_name |-> tool_name.val])

\* "data" in e and isinstance(e["data"], str)
HasStrData(e) ==
    LET a == PyContains("data", e) IN
    IF a.exc # "" \/ ~a.val THEN a
    ELSE LET d == PyGetItem(e, "data") IN
         IF d.exc # "" THEN d ELSE Ok(IsStr(d.val))

\* DeltaText without the test of line 91.
DeltaTextUnguarded(e) ==
    LET delta == PyPath(e, <<"event", "contentBlockDelta", "delta">>) IN
    IF delta.exc # "" THEN Throw(delta.exc)
    ELSE LET text == PyGet(delta.val, "text", JStr("")) IN
         IF text.exc # "" THEN Throw(text.exc)
         ELSE Yield([type |-> "text", text |-> text.val])

DeltaText(e) ==
    LET delta == PyPath(e, <<"event", "contentBlockDelta", "delta">>) IN
    IF delta.exc # "" THEN Throw(delta.exc)
    ELSE LET text == PyGet(delta.val, "text", JStr("")) IN
         IF text.exc # "" THEN Throw(text.exc)
         ELSE IF Truthy(text.val) THEN Yield([type |-> "text", text |-> text.val])
         ELSE NoYield

TextDetect(e) ==
    LET c1 == HasStrData(e) IN
    IF c1.exc # "" THEN Throw(c1.exc)
    ELSE IF c1.val THEN Yield([type |-> "text", text |-> DictAt(e, "data")])
    ELSE LET c2 == HasEventKey(e, "contentBlockDelta") IN
         IF c2.exc # "" THEN Throw(c2.exc)
         ELSE IF c2.val THEN DeltaText(e)
         ELSE NoYield

(***************************************************************************)
(* The responses the model draws from.  Ser(v) writes a value the way      *)
(* json.dumps does, a blank after each colon and comma.                    *)
(***************************************************************************)
RECURSIVE Ser(_)
RECURSIVE SerItems(_, _, _)
Ser(v) ==
    CASE v.t = "str" -> <<DQ(v.s)>>
      [] v.t \in {"num", "bool"} -> <<Lit(v.s)>>
      [] v.t = "null" -> <<Lit("null")>>
      [] v.t = "list" -> <<LBrack>> \o SerItems(<<>>, v.vals, 1) \o <<RBrack>>
      [] OTHER -> <<LBrace>> \o SerItems(v.keys, v.vals, 1) \o <<RBrace>>

SerItems(keys, vals, i) ==
    IF i > Len(vals) THEN <<>>
    ELSE (IF i > 1 THEN <<Comma, Blank>> ELSE <<>>)
         \o (IF keys # <<>> THEN <<DQ(keys[i]), Colon, Blank>> ELSE <<>>)
         \o Ser(vals[i]) \o SerItems(keys, vals, i + 1)

Obj1(k, v) == JObj(<<k>>, <<v>>)
Obj2(k1, v1, k2, v2) == JObj(<<k1, k2>>, <<v1, v2>>)

DataHello == Obj1("data", JStr("hello"))
DeltaOf(d) == Obj1("contentBlockDelta", d)
DeltaHi == DeltaOf(Obj1("delta", Obj1("text", JStr("hi"))))
StartOf(st) == Obj1("contentBlockStart", st)
ToolSearch == StartOf(Obj1("start", Obj1("toolUse", Obj1("name", JStr("search")))))

\* The shapes section 6 of the spec lists, and their neighbours.
TextPayloads ==
    { DataHello,
      Obj1("data", JStr("")),
      Obj1("event", DeltaHi),
      Obj1("event", DeltaOf(Obj1("delta", Obj1("text", JStr(""))))),
      Obj1("event", DeltaOf(Obj1("delta", EmptyDict))),
      Obj1("event", DeltaOf(EmptyDict)),
      Obj1("event", DeltaOf(Obj1("delta", Obj1("text", JNum("5"))))),
      Obj2("data", JStr("hello"), "event", DeltaHi) }

ToolPayloads ==
    { Obj1("event", ToolSearch),
      Obj1("event", StartOf(Obj1("start", Obj1("toolUse", EmptyDict)))),
      Obj1("event", StartOf(Obj1("start", EmptyDict))),
      Obj1("event", StartOf(EmptyDict)),
      Obj2("event", ToolSearch, "data", JStr("hello")),
      Obj1("event", JObj(<<"contentBlockStart", "contentBlockDelta">>,
                         <<ToolSearch.vals[1], EmptyDict>>)),
      Obj1("event", JObj(<<"contentBlockStart", "contentBlockDelta">>,
                         <<ToolSearch.vals[1], DeltaHi.vals[1]>>)) }

OtherPayloads ==
    { JNum("5"), JNull, JList(<<>>), JList(<<JStr("event")>>),
      EmptyDict, Obj1("other", JStr("hello")), Obj1("data", JNum("5")),
      Obj1("event", JNum("5")), Obj1("event", JStr("contentBlockStart")),
      Obj2("data", JStr("hello"), "event", JNum("5")),
      Obj1("event", EmptyDict) }

Payloads == TextPayloads \cup ToolPayloads \cup OtherPayloads

JsonLines == {<<DataPrefix>> \o Ser(v) : v \in Payloads}

\* Lines that are no event: empty, without the prefix, or not UTF-8.
NoPrefixLines ==
    { <<>>, Ser(DataHello), <<DataColon>> \o Ser(DataHello),
      <<Tok("raw", "event: message")>>, <<BadByte>> }

\* Payloads that begin with a quote, with a blank and then a quote, or that
\* are no JSON.
OddLines ==
    { <<DataPrefix, DQ("hello")>>, <<DataPrefix, Tok("sq", "'hello'")>>,
      <<DataPrefix, DQ("an event")>>,
      <<DataPrefix, Blank, DQ("an event")>>,
      <<DataPrefix>>, <<DataPrefix, Tok("raw", "[DONE]")>>,
      <<DataPrefix, LBrace, DQ("data"), Colon>>,
      <<DataPrefix>> \o Ser(DataHello) \o <<RBrace>>,
      <<DataPrefix, BadByte>>, <<DataPrefix, DQ("hello"), BadByte>> }

LineSet == JsonLines \cup NoPrefixLines \cup OddLines

Bodies == UNION {[1..n -> LineSet] : n \in 0..MaxLines}

StatusCodes == {200, 500}

(***************************************************************************)
(* The steps of one line, lines 64-78.                                     *)
(***************************************************************************)
\* line.decode("utf-8")
decode(line) ==
    IF \E i \in DOMAIN line : line[i].k = "bad"
    THEN Raise("UnicodeDecodeError") ELSE Ok(line)

\* decoded_line.startswith("data: "): no other piece spells these six
\* characters, and the lines of the model never put a blank after "data:".
StartsWithData(decoded_line) == decoded_line # <<>> /\ Head(decoded_line) = DataPrefix

\* decoded_line[6:]
Payload(decoded_line) == Tail(decoded_line)

\* data.startswith('"') or data.startswith("'")
NoQuoteCheck(data) == FALSE
StartsWithQuote(data) == data # <<>> /\ Head(data).k \in {"dq", "sq"}

\* Where the handler leaves a line: "empty", "undecodable", "no_prefix",
\* "quoted", "bad_json", or "parsed" when it reaches the detection blocks.
Stage(line) ==
    IF line = <<>> THEN "empty"
    ELSE IF decode(line).exc # "" THEN "undecodable"
    ELSE IF ~StartsWithData(line) THEN "no_prefix"
    ELSE IF StartsWithQuote(Payload(line)) THEN "quoted"
    ELSE IF json_loads(Payload(line)).exc # "" THEN "bad_json"
    ELSE "parsed"

Parsed(line) == json_loads(Payload(line)).val

(***************************************************************************)
(* The error event of line 59: the status and the first 500 pieces of the  *)
(* body's text (response.text replaces what is not UTF-8).                 *)
(***************************************************************************)
ErrTextLimit == 500

RECURSIVE ResponseText(_)
ResponseText(lines) ==
    IF lines = <<>> THEN <<>>
    ELSE [i \in DOMAIN Head(lines) |->
             IF Head(lines)[i].k = "bad" THEN Tok("raw", "\\ufffd") ELSE Head(lines)[i]]
         \o <<Tok("raw", "\\n")>> \o ResponseText(Tail(lines))

Truncate(text) ==
    SubSeq(text, 1, IF Len(text) < ErrTextLimit THEN Len(text) ELSE ErrTextLimit)

ErrorEvent ==
    [type |-> "error",
     message |-> [status |-> status_code, text |-> Truncate(ResponseText(body))]]

(***************************************************************************)
(* State.  pc is where the generator stands: "request" before the POST,    *)
(* "yield_error", "yield_tool", "yield_text" suspended at the yield of     *)
(* line 59, 84, 88/92, "loop" at the head of the for loop, "done" after    *)
(* it returned, "raised" after an exception left it (exc names it).        *)
(* pos counts the lines read from iter_lines; event is the parsed value    *)
(* of the line in hand; out is the sequence of events yielded so far and   *)
(* src[i] the number of the line that produced out[i] (0: no line).        *)
(***************************************************************************)
\* The parts of the program a specification is not about stay as they are
\* before they start.
TurnAtRest ==
    app = "off" /\ buffer = <<>> /\ messages = <<>> /\ title = <<>> /\ handled = 0
FrontAtRest ==
    /\ access_token = <<>> /\ actor_id = JNull /\ current_thread_id = JNull
    /\ threads = <<>> /\ sent = <<>>
    /\ memory_sessions_loaded = FALSE /\ fetched = <<>> /\ fpc = "off"
BackendAtRest == entry = "off" /\ payload = EmptyDict /\ bpc = "off" /\ replies = <<>> /\ made = <<>>
MemoryAtRest ==
    /\ loop = "off" /\ pages = <<>> /\ mpc = "off" /\ next_token = JNull
    /\ requests = <<>> /\ collected = <<>> /\ result = <<>>
OAuthAtRest == query_params = EmptyDict /\ calls = <<>> /\ cpc = "off" /\ returned = <<>>

\* A response to come and the generator not yet started.
Created(bodies) ==
    /\ status_code \in StatusCodes
    /\ body \in bodies
    /\ pos = 0
    /\ event = JNull
    /\ out = <<>>
    /\ src = <<>>
    /\ exc = ""
    /\ conn = "none"

DecoderAtRest == Created({<<>>}) /\ status_code = 200 /\ pc = "idle"

Init ==
    /\ Created(Bodies)
    /\ pc = "request"
    /\ TurnAtRest /\ FrontAtRest /\ BackendAtRest /\ MemoryAtRest /\ OAuthAtRest

\* yield e, for the line numbered n
EmitFirst(e, n, at) ==
    /\ out' = <<e>> \o out
    /\ src' = <<n>> \o src
    /\ pc' = at

EmitHeld(e, n, at) ==
    /\ out' = out
    /\ src' = src
    /\ pc' = at

Emit(e, n, at) ==
    /\ out' = Append(out, e)
    /\ src' = Append(src, n)
    /\ pc' = at

\* Lines 94-95: the one exception the try block catches.
CaughtNothing(e) == FALSE
Caught(e) == e = "JSONDecodeError"

\* An exception raised inside the try block: continue when it is caught,
\* else it leaves the generator.
Except(e) ==
    IF Caught(e) THEN pc' = "loop" /\ UNCHANGED exc
    ELSE pc' = "raised" /\ exc' = e

\* The text block, lines 87-92, and back to the head of the loop.
TextBlock(e, n) ==
    LET r == TextDetect(e) IN
    IF r.exc # "" THEN Except(r.exc) /\ UNCHANGED <<out, src>>
    ELSE IF r.yields THEN Emit(r.ev, n, "yield_text") /\ UNCHANGED exc
    ELSE /\ pc' = "loop"
         /\ UNCHANGED <<out, src, exc>>

\* Lines 39-60: the POST opens the connection with stream=True; a status
\* other than 200 yields the error event, and response.text (line 59) has
\* then read the body to its end, which gives the connection back.
Request ==
    /\ pc = "request"
    /\ IF status_code # 200
       THEN Emit(ErrorEvent, 0, "yield_error") /\ conn' = "closed"
       ELSE pc' = "loop" /\ conn' = "open" /\ UNCHANGED <<out, src>>
    /\ UNCHANGED <<status_code, body, pos, event, exc>>
    /\ UNCHANGED <<turnVars, frontVars, backendVars, memoryVars, oauthVars>>

\* Line 60: the return after the error event.
FallThrough ==
    /\ pc = "yield_error"
    /\ pc' = "loop"
    /\ UNCHANGED <<status_code, body, conn, pos, event, out, src, exc>>
    /\ UNCHANGED <<turnVars, frontVars, backendVars, memoryVars, oauthVars>>

ReturnAfterError ==
    /\ pc = "yield_error"
    /\ pc' = "done"
    /\ UNCHANGED <<status_code, body, conn, pos, event, out, src, exc>>
    /\ UNCHANGED <<turnVars, frontVars, backendVars, memoryVars, oauthVars>>

\* Lines 63-75: a line that is empty, has no prefix or begins with a
\* quote: continue.
SkipLine ==
    /\ pc = "loop"
    /\ pos < Len(body)
    /\ Stage(body[pos + 1]) \in {"empty", "no_prefix", "quoted"}
    /\ pos' = pos + 1
    /\ UNCHANGED <<status_code, body, conn, pc, event, out, src, exc>>
    /\ UNCHANGED <<turnVars, frontVars, backendVars, memoryVars, oauthVars>>

\* Lines 77-78, 94-95: json.loads raises inside the try block.
ParseError ==
    /\ pc = "loop"
    /\ pos < Len(body)
    /\ Stage(body[pos + 1]) = "bad_json"
    /\ pos' = pos + 1
    /\ Except(json_loads(Payload(body[pos + 1])).exc)
    /\ UNCHANGED <<status_code, body, conn, event, out, src>>
    /\ UNCHANGED <<turnVars, frontVars, backendVars, memoryVars, oauthVars>>

\* Line 67: the line is not UTF-8; UnicodeDecodeError leaves the generator.
DecodeError ==
    /\ pc = "loop"
    /\ pos < Len(body)
    /\ Stage(body[pos + 1]) = "undecodable"
    /\ pos' = pos + 1
    /\ pc' = "raised"
    /\ exc' = decode(body[pos + 1]).exc
    /\ UNCHANGED <<status_code, body, conn, event, out, src>>
    /\ UNCHANGED <<turnVars, frontVars, backendVars, memoryVars, oauthVars>>

\* Lines 78-92 for a line that parsed, up to its first yield, the
\* exception that leaves the try block, or the end of the loop body.
ClassifyLine ==
    /\ pc = "loop"
    /\ pos < Len(body)
    /\ Stage(body[pos + 1]) = "parsed"
    /\ pos' = pos + 1
    /\ event' = Parsed(body[pos + 1])
    /\ LET r == ToolDetect(event') IN
       IF r.exc # "" THEN Except(r.exc) /\ UNCHANGED <<out, src>>
       ELSE IF r.yields THEN Emit(r.ev, pos + 1, "yield_tool") /\ UNCHANGED exc
       ELSE TextBlock(event', pos + 1)
    /\ UNCHANGED <<status_code, body, conn>>
    /\ UNCHANGED <<turnVars, frontVars, backendVars, memoryVars, oauthVars>>

\* Resumed after the yield of line 84: the text block of the same line.
ResumeSkipsText ==
    /\ pc = "yield_tool"
    /\ pc' = "loop"
    /\ UNCHANGED <<status_code, body, conn, pos, event, out, src, exc>>
    /\ UNCHANGED <<turnVars, frontVars, backendVars, memoryVars, oauthVars>>

ResumeAfterTool ==
    /\ pc = "yield_tool"
    /\ TextBlock(event, pos)
    /\ UNCHANGED <<status_code, body, conn, pos, event>>
    /\ UNCHANGED <<turnVars, frontVars, backendVars, memoryVars, oauthVars>>

\* Resumed after the yield of line 88 or 92: the next turn of the loop.
ResumeAfterText ==
    /\ pc = "yield_text"
    /\ pc' = "loop"
    /\ UNCHANGED <<status_code, body, conn, pos, event, out, src, exc>>
    /\ UNCHANGED <<turnVars, frontVars, backendVars, memoryVars, oauthVars>>

\* iter_lines is exhausted: the body is read to its end, which gives the
\* connection back, and the generator returns.
EndOfStream ==
    /\ pc = "loop"
    /\ pos = Len(body)
    /\ pc' = "done"
    /\ conn' = "closed"
    /\ UNCHANGED <<status_code, body, pos, event, out, src, exc>>
    /\ UNCHANGED <<turnVars, frontVars, backendVars, memoryVars, oauthVars>>

Next ==
    \/ Request
    \/ ReturnAfterError
    \/ SkipLine
    \/ DecodeError
    \/ ParseError
    \/ ClassifyLine
    \/ ResumeAfterTool
    \/ ResumeAfterText
    \/ EndOfStream

Spec == Init /\ [][Next]_vars
(***************************************************************************)
(* The events one line yields, lines 64-95 taken as a whole: none unless   *)
(* the line reaches the detection blocks, and those yielded before an      *)
(* exception leaves the handler.                                           *)
(***************************************************************************)
EventsOf(line) ==
    IF Stage(line) # "parsed" THEN <<>>
    ELSE LET e == Parsed(line)
             t == ToolDetect(e)
             x == TextDetect(e)
         IN  IF t.exc # "" THEN <<>>
             ELSE (IF t.yields THEN <<t.ev>> ELSE <<>>)
                  \o (IF x.exc = "" /\ x.yields THEN <<x.ev>> ELSE <<>>)

\* What the handler makes of each line of the model, tabulated once.
Decoded ==
    [l \in LineSet |->
        [stage |-> Stage(l),
         event |-> IF Stage(l) = "parsed" THEN Parsed(l) ELSE JNull,
         events |-> EventsOf(l)]]
StageAt(line) == Decoded[line].stage
ParsedAt(line) == Decoded[line].event
EventsAt(line) == Decoded[line].events

RECURSIVE EventsOfLines(_)
EventsOfLines(lines) ==
    IF lines = <<>> THEN <<>>
    ELSE EventsAt(Head(lines)) \o EventsOfLines(Tail(lines))

IsPrefixOf(a, b) == Len(a) <= Len(b) /\ a = SubSeq(b, 1, Len(a))

\* The events of line n among those yielded so far.
Yielded(n) == {i \in DOMAIN out : src[i] = n}
YieldedOfType(n, type) == {i \in Yielded(n) : out[i].type = type}

\* Line n has been read and the handler is through with it.
Finished(n) == n < pos \/ (n = pos /\ pc \in {"loop", "done", "raised"})

LineOf(v) == <<DataPrefix>> \o Ser(v)

\* A str as the sequence of its characters: s + t is Chars(s) \o Chars(t).
Chars(s) ==
    CASE s = "" -> <<>>
      [] s = "hi" -> <<"h", "i">>
      [] s = "hello" -> <<"h", "e", "l", "l", "o">>
      [] OTHER -> <<s>>

\* An exception leaves the generator at this line.
Raises(line) ==
    \/ Stage(line) = "undecodable"
    \/ /\ Stage(line) = "parsed"
       /\ LET t == ToolDetect(Parsed(line))
              x == TextDetect(Parsed(line))
          IN  \/ (t.exc # "" /\ ~Caught(t.exc))
              \/ (t.exc = "" /\ x.exc # "" /\ ~Caught(x.exc))

\* All the events invoke_agent_stream yields for a body with status 200:
\* those of its lines up to and including the first that raises.
RECURSIVE DecodeAll(_)
DecodeAll(lines) ==
    IF lines = <<>> THEN <<>>
    ELSE EventsOf(Head(lines))
         \o (IF Raises(Head(lines)) THEN <<>> ELSE DecodeAll(Tail(lines)))

(***************************************************************************)
(* The turn of main_app, src/frontend/app.py lines 164-217: the prompt is  *)
(* appended to the thread's messages, the events of invoke_agent_stream    *)
(* are consumed in a for loop, and the reply left in buffer is appended.   *)
(* app is where main_app stands: "input" before the prompt, "loop" in the  *)
(* for loop, "after" behind it, "end" when the turn is over, "raised" when *)
(* an exception left it.  handled counts the events the loop body has      *)
(* seen.  A text is the sequence of its characters.                        *)
(***************************************************************************)
\* The lines of a turn: one of each kind of outcome the loop can meet.
TurnLines ==
    { <<>>, LineOf(DataHello), LineOf(Obj1("event", DeltaHi)),
      LineOf(Obj1("event", ToolSearch)),
      LineOf(Obj2("event", ToolSearch, "data", JStr("hello"))),
      LineOf(Obj1("event", DeltaOf(Obj1("delta", Obj1("text", JNum("5")))))),
      LineOf(JNum("5")), <<DataPrefix, Tok("raw", "[DONE]")>>, <<BadByte>> }

TurnBodies == UNION {[1..n -> TurnLines] : n \in 0..MaxTurnLines}

Message(role, content) == [role |-> role, content |-> content]

\* The title of a thread that has none yet (line 97), and the title made
\* of a message (lines 151, 217): its first 20 characters, and "..." when
\* there are more.
NewTitle == <<"NEW">>
TitleLimit == 20
TitleOf(content) ==
    IF Len(content) > TitleLimit
    THEN SubSeq(content, 1, TitleLimit) \o <<".", ".", ".">>
    ELSE content

\* What the user types.
Prompts == {Chars("hi")}

\* The thread before the turn: new, or with an earlier exchange.
Histories ==
    { <<>>, <<Message("user", Chars("hello")), Message("assistant", Chars("hi"))>> }

AppInit ==
    /\ Created(TurnBodies)
    /\ pc = "idle"
    /\ app = "input"
    /\ buffer = <<>>
    /\ messages \in Histories
    /\ title = IF messages = <<>> THEN NewTitle ELSE TitleOf(messages[1].content)
    /\ handled = 0
    /\ FrontAtRest /\ BackendAtRest /\ MemoryAtRest /\ OAuthAtRest

\* Lines 164-187: the prompt is appended, buffer starts empty and the call
\* of invoke_agent_stream makes the generator.
SubmitPrompt ==
    /\ app = "input"
    /\ \E prompt \in Prompts :
           messages' = Append(messages, Message("user", prompt))
    /\ buffer' = <<>>
    /\ app' = "loop"
    /\ pc' = "request"
    /\ UNCHANGED <<status_code, body, pos, event, out, src, exc, conn, title, handled>>
    /\ UNCHANGED <<frontVars, backendVars, memoryVars, oauthVars>>

\* The generator is suspended at a yield and the loop body has the event.
Delivered(type) ==
    /\ app = "loop"
    /\ pc \in {"yield_error", "yield_tool", "yield_text"}
    /\ handled < Len(out)
    /\ out[Len(out)].type = type

\* Lines 188-190: an error event is shown and the loop is left.
OnErrorRecorded ==
    /\ Delivered("error")
    /\ buffer' = Chars("error")
    /\ app' = "after"
    /\ handled' = Len(out)
    /\ UNCHANGED <<decoderVars, messages, title, frontVars, backendVars, memoryVars, oauthVars>>

OnError ==
    /\ Delivered("error")
    /\ app' = "after"
    /\ handled' = Len(out)
    /\ UNCHANGED <<decoderVars, buffer, messages, title, frontVars, backendVars, memoryVars, oauthVars>>

\* Lines 192-200: a tool_use event shows the text so far and empties buffer.
OnToolUse ==
    /\ Delivered("tool_use")
    /\ buffer' = IF buffer # <<>> THEN <<>> ELSE buffer
    /\ handled' = Len(out)
    /\ UNCHANGED <<decoderVars, app, messages, title, frontVars, backendVars, memoryVars, oauthVars>>

\* Lines 202-204: buffer += event["text"]; a text that is no str raises
\* TypeError, which leaves main_app.
OnText ==
    /\ Delivered("text")
    /\ LET text == out[Len(out)].text IN
       IF IsStr(text)
       THEN buffer' = buffer \o Chars(text.s) /\ app' = app
       ELSE buffer' = buffer /\ app' = "raised"
    /\ handled' = Len(out)
    /\ UNCHANGED <<decoderVars, messages, title, frontVars, backendVars, memoryVars, oauthVars>>

\* The for statement asks for the next event: the generator goes on from
\* the yield where it stands.
NextAfterTool == app = "loop" /\ handled = Len(out) /\ ResumeAfterTool
NextAfterText == app = "loop" /\ handled = Len(out) /\ ResumeAfterText

\* The generator has returned: the for loop ends.
LoopEnd ==
    /\ app = "loop"
    /\ pc = "done"
    /\ app' = "after"
    /\ UNCHANGED <<decoderVars, buffer, messages, title, handled, frontVars, backendVars, memoryVars, oauthVars>>

\* An exception left the generator: it leaves the for loop and main_app.
Propagate ==
    /\ app = "loop"
    /\ pc = "raised"
    /\ app' = "raised"
    /\ UNCHANGED <<decoderVars, buffer, messages, title, handled, frontVars, backendVars, memoryVars, oauthVars>>

\* Lines 207-217: a buffer that is not empty is appended as the assistant's
\* message, and a thread that has no title yet is named after its first
\* user message.
AfterLoop ==
    /\ app = "after"
    /\ app' = "end"
    /\ IF buffer # <<>>
       THEN /\ messages' = Append(messages, Message("assistant", buffer))
            /\ LET users == SelectSeq(messages', LAMBDA m : m.role = "user") IN
               title' = IF title = NewTitle /\ users # <<>> /\ users[1].content # <<>>
                        THEN TitleOf(users[1].content) ELSE title
       ELSE UNCHANGED <<messages, title>>
    /\ UNCHANGED <<decoderVars, buffer, handled, frontVars, backendVars, memoryVars, oauthVars>>

AppNext ==
    \/ SubmitPrompt
    \/ Request
    \/ SkipLine
    \/ DecodeError
    \/ ParseError
    \/ ClassifyLine
    \/ EndOfStream
    \/ OnError
    \/ OnToolUse
    \/ OnText
    \/ NextAfterTool
    \/ NextAfterText
    \/ LoopEnd
    \/ Propagate
    \/ AfterLoop

AppSpec == AppInit /\ [][AppNext]_vars

(***************************************************************************)
(* The backend entry points: invoke of src/backend/src/main.py ("main")    *)
(* and invoke of src/agent/app.py ("agent").  payload is the request's     *)
(* JSON object; bpc is where invoke stands; replies are the messages it    *)
(* has produced; made lists what it has created and run, each with the     *)
(* values it was given.                                                    *)
(***************************************************************************)
\* payload.get(key): None when the key is absent.
Get(d, key) == PyGet(d, key, JNull).val

Merge(a, b) == JObj(a.keys \o b.keys, a.vals \o b.vals)

\* The key left out, or present with one of the values.
Opt(key, vals) == {EmptyDict} \cup {Obj1(key, v) : v \in vals}

ShortId == JStr("thread-1")
Uuid == JStr("123e4567-e89b-12d3-a456-426614174000")
\* Session ids of 32 and of 33 characters, on either side of line 76.
Id32 == JStr("123e4567-e89b-12d3-a456-42661417")
Id33 == JStr("123e4567-e89b-12d3-a456-426614174")

BackendPayloads ==
    { Merge(Merge(Merge(Merge(p, t), a), s), g) :
        p \in Opt("prompt", {JStr("hi")}),
        t \in Opt("access_token", {JNull, JStr(""), JStr("jwt")}),
        a \in Opt("actor_id", {JStr(""), JStr("user-1")}),
        s \in Opt("session_id", {JStr(""), ShortId, Id32, Id33, Uuid}),
        g \in Opt("gateway_url", {JNull, JStr(""), JStr("https://gateway")}) }

\* len(session_id) of identity.py line 76.
MinSessionIdLen == 33

\* validate_identity_params with <= at line 76.
validate_identity_strict(token, actor, session) ==
    IF ~Truthy(token) THEN JStr("access_token missing")
    ELSE IF ~Truthy(actor) THEN JStr("actor_id missing")
    ELSE IF ~Truthy(session) THEN JStr("session_id missing")
    ELSE IF Len(session.s) <= MinSessionIdLen THEN JStr("session_id shorter than 33")
    ELSE JNull

\* validate_identity_params: the error message, or None (JNull).
validate_identity_params(token, actor, session) ==
    IF ~Truthy(token) THEN JStr("access_token missing")
    ELSE IF ~Truthy(actor) THEN JStr("actor_id missing")
    ELSE IF ~Truthy(session) THEN JStr("session_id missing")
    ELSE IF Len(session.s) < MinSessionIdLen THEN JStr("session_id shorter than 33")
    ELSE JNull

ErrorReply(text) == [kind |-> "error", text |-> text]
Made(what, args) == [what |-> what, args |-> args]

BackendInit ==
    /\ entry \in {"main", "agent"}
    /\ payload \in BackendPayloads
    /\ bpc = "start"
    /\ replies = <<>>
    /\ made = <<>>
    /\ DecoderAtRest /\ TurnAtRest /\ FrontAtRest /\ MemoryAtRest /\ OAuthAtRest

\* One reply with the error and the end of invoke.
Refuse(text) ==
    /\ replies' = Append(replies, ErrorReply(text))
    /\ bpc' = "done"

\* main.py lines 47-57: the fields are read and the identity checked.
AcceptAnyIdentity ==
    /\ entry = "main" /\ bpc = "start"
    /\ bpc' = "gateway" /\ UNCHANGED replies
    /\ UNCHANGED <<entry, payload, made, decoderVars, turnVars, frontVars, memoryVars, oauthVars>>

ValidateIdentity ==
    /\ entry = "main" /\ bpc = "start"
    /\ LET error == validate_identity_params(Get(payload, "access_token"),
                         Get(payload, "actor_id"), Get(payload, "session_id"))
       IN  IF Truthy(error) THEN Refuse(error.s)
           ELSE bpc' = "gateway" /\ UNCHANGED replies
    /\ UNCHANGED <<entry, payload, made, decoderVars, turnVars, frontVars, memoryVars, oauthVars>>

\* main.py lines 59-61.
CheckGateway ==
    /\ entry = "main" /\ bpc = "gateway"
    /\ IF ~Truthy(Get(payload, "gateway_url")) THEN Refuse("gateway_url missing")
       ELSE bpc' = "memory" /\ UNCHANGED replies
    /\ UNCHANGED <<entry, payload, made, decoderVars, turnVars, frontVars, memoryVars, oauthVars>>

\* agent/app.py lines 38-60: the two checks of the older entry point.
CheckAgentFields ==
    /\ entry = "agent" /\ bpc = "start"
    /\ IF ~Truthy(Get(payload, "access_token")) \/ ~Truthy(Get(payload, "gateway_url"))
       THEN Refuse("access_token or gateway_url missing")
       ELSE IF ~Truthy(Get(payload, "session_id")) \/ ~Truthy(Get(payload, "actor_id"))
       THEN Refuse("session_id or actor_id missing")
       ELSE bpc' = "memory" /\ UNCHANGED replies
    /\ UNCHANGED <<entry, payload, made, decoderVars, turnVars, frontVars, memoryVars, oauthVars>>

\* main.py lines 64-69, agent/app.py lines 63-68.
CreateSessionManager ==
    /\ bpc = "memory"
    /\ made' = Append(made, Made("session_manager",
                   <<Get(payload, "session_id"), Get(payload, "actor_id")>>))
    /\ bpc' = "client"
    /\ UNCHANGED <<entry, payload, replies, decoderVars, turnVars, frontVars, memoryVars, oauthVars>>

\* main.py line 72, agent/app.py lines 71-76.
CreateGatewayClient ==
    /\ bpc = "client"
    /\ made' = Append(made, Made("mcp_client",
                   <<Get(payload, "gateway_url"), Get(payload, "access_token")>>))
    /\ bpc' = "agent"
    /\ UNCHANGED <<entry, payload, replies, decoderVars, turnVars, frontVars, memoryVars, oauthVars>>

\* main.py lines 75-95, agent/app.py lines 79-119: the agent is made and
\* run on the prompt, "Hello!" when the payload has none.
RunAgent ==
    /\ bpc = "agent"
    /\ LET prompt == PyGet(payload, "prompt", JStr("Hello!")).val IN
       /\ made' = made \o << Made("agent", <<Get(payload, "session_id"), Get(payload, "actor_id"),
                                              Get(payload, "gateway_url")>>),
                              Made("run", <<prompt>>) >>
       /\ replies' = Append(replies, [kind |-> "answer", text |-> prompt.s])
    /\ bpc' = "done"
    /\ UNCHANGED <<entry, payload, decoderVars, turnVars, frontVars, memoryVars, oauthVars>>

BackendNext ==
    \/ ValidateIdentity
    \/ CheckGateway
    \/ CheckAgentFields
    \/ CreateSessionManager
    \/ CreateGatewayClient
    \/ RunAgent

BackendSpec == BackendInit /\ [][BackendNext]_vars

(***************************************************************************)
(* The session state of main_app over the runs of the script,              *)
(* src/frontend/app.py lines 12-22 and 39-217.  access_token is the token  *)
(* of the login, a sequence of dot-separated segments, each [b64, bytes]:  *)
(* whether it is base64 and the bytes it encodes; actor_id is what         *)
(* get_cognito_sub makes of it; threads maps the ids of the threads of the *)
(* session to their title and messages, current_thread_id is the one       *)
(* selected (None before the first run) and memory_sessions_loaded the     *)
(* flag of line 55; fetched lists what the calls of list_memory_sessions   *)
(* returned and sent the agent-execution requests made so far.  fpc is the *)
(* position in the run: "load" at its top, "sidebar" at the buttons,       *)
(* "select" and "chat" after the selection of the thread, "end" after the  *)
(* turn.                                                                   *)
(***************************************************************************)
MaxSent == 1

Segment(bytes) == [b64 |-> TRUE, bytes |-> bytes]
NotBase64 == [b64 |-> FALSE, bytes |-> <<>>]
Jwt(claims) == <<Segment(Ser(Obj1("alg", JStr("RS256")))), claims, Segment(<<Tok("raw", "sig")>>)>>

Tokens ==
    { Jwt(Segment(Ser(Obj1("sub", JStr("user-1"))))),
      Jwt(Segment(Ser(Obj1("username", JStr("bob"))))),
      Jwt(Segment(Ser(Obj1("sub", JStr(""))))),
      Jwt(Segment(Ser(JList(<<JStr("sub")>>)))),
      Jwt(Segment(<<Tok("raw", "[DONE]")>>)),
      Jwt(NotBase64),
      <<Segment(<<Tok("raw", "opaque")>>)>> }

\* Lines 14-22: the "sub" of the second segment's JSON object; "" when
\* the object has none, and when anything raises on the way (no second
\* segment, no base64, no JSON, no object).
get_cognito_sub(token) ==
    IF Len(token) < 2 THEN JStr("")
    ELSE IF ~token[2].b64 THEN JStr("")
    ELSE LET r == json_loads(token[2].bytes) IN
         IF r.exc # "" THEN JStr("")
         ELSE LET sub == PyGet(r.val, "sub", JStr("")) IN
              IF sub.exc # "" THEN JStr("") ELSE sub.val

\* The thread ids str(uuid.uuid4()) can give, in the order of sorted().
ThreadIds == <<JStr("1f0c"), JStr("7a3e"), JStr("c29b")>>

\* sorted(ids, reverse=True)[0]
Latest(ids) ==
    ThreadIds[CHOOSE i \in DOMAIN ThreadIds :
                 /\ ThreadIds[i] \in ids
                 /\ \A j \in DOMAIN ThreadIds : ThreadIds[j] \in ids => j <= i]

\* A thread of st.session_state.threads, and threads[id] = thread.
Thread(thread_title, thread_messages) == [title |-> thread_title, messages |-> thread_messages]
PutThread(ts, id, thread) ==
    [k \in DOMAIN ts \cup {id} |-> IF k = id THEN thread ELSE ts[k]]

\* Lines 72-79: the title of a session of the store, of its createdAt: a
\* datetime, a string, or nothing.
PastTitle == <<"PAST">>
StrOf(v) ==
    CASE v = JStr("2025-02-02T09:00:00Z") -> <<"2025-02-02", "T09:00:00Z">>
      [] OTHER -> <<v.s>>
SessionTitle(created_at) ==
    IF created_at.t = "datetime" THEN <<created_at.s>>
    ELSE IF Truthy(created_at) THEN SubSeq(StrOf(created_at), 1, 1)
    ELSE PastTitle

\* The session summaries list_memory_sessions can return.
StoredSessions ==
    { Obj2("sessionId", ThreadIds[1], "createdAt", JVal("datetime", "2025-01-01", <<>>, <<>>)),
      Obj2("sessionId", ThreadIds[1], "createdAt", JStr("2025-02-02T09:00:00Z")),
      Obj1("sessionId", ThreadIds[2]),
      Obj2("sessionId", JStr(""), "createdAt", JStr("2025-02-02T09:00:00Z")) }
\* None, one, or two of them, the first of the two a session of the first id.
SessionLists ==
    {<<>>} \cup {<<a>> : a \in StoredSessions}
    \cup {p \in StoredSessions \X StoredSessions :
              p[1] # p[2] /\ Get(p[1], "sessionId") = ThreadIds[1]}

\* Lines 68-80 with the test of line 70 left out.
RECURSIVE MergeOverwrites(_, _)
MergeOverwrites(ts, memory_sessions) ==
    IF memory_sessions = <<>> THEN ts
    ELSE LET session == Head(memory_sessions)
             session_id == Get(session, "sessionId")
         IN  MergeOverwrites(
                 IF Truthy(session_id)
                 THEN PutThread(ts, session_id, Thread(SessionTitle(Get(session, "createdAt")), <<>>))
                 ELSE ts,
                 Tail(memory_sessions))

\* Lines 68-80: the sessions of the store that are no thread yet become
\* threads without messages.
RECURSIVE MergeSessions(_, _)
MergeSessions(ts, memory_sessions) ==
    IF memory_sessions = <<>> THEN ts
    ELSE LET session == Head(memory_sessions)
             session_id == Get(session, "sessionId")
         IN  MergeSessions(
                 IF Truthy(session_id) /\ session_id \notin DOMAIN ts
                 THEN PutThread(ts, session_id, Thread(SessionTitle(Get(session, "createdAt")), <<>>))
                 ELSE ts,
                 Tail(memory_sessions))

FrontInit ==
    /\ access_token \in Tokens
    /\ actor_id = JNull
    /\ current_thread_id = JNull
    /\ threads = <<>>
    /\ sent = <<>>
    /\ memory_sessions_loaded = FALSE
    /\ fetched = <<>>
    /\ fpc = "load"
    /\ DecoderAtRest /\ TurnAtRest /\ BackendAtRest /\ MemoryAtRest /\ OAuthAtRest

\* Lines 41-83, the top of a run: the actor id is read off the token and,
\* in the first run, the sessions of the memory store become threads when
\* a memory is configured.
LoadSessions ==
    /\ fpc = "load"
    /\ actor_id' = get_cognito_sub(access_token)
    /\ IF ~memory_sessions_loaded
       THEN /\ \E memory_id \in {JNull, JStr("mem-1")}, memory_sessions \in SessionLists :
                  IF Truthy(memory_id)
                  THEN /\ fetched' = Append(fetched, memory_sessions)
                       /\ threads' = MergeSessions(threads, memory_sessions)
                  ELSE UNCHANGED <<fetched, threads>>
            /\ memory_sessions_loaded' = TRUE
       ELSE UNCHANGED <<fetched, threads, memory_sessions_loaded>>
    /\ fpc' = "sidebar"
    /\ UNCHANGED <<access_token, current_thread_id, sent>>
    /\ UNCHANGED <<decoderVars, turnVars, backendVars, memoryVars, oauthVars>>

\* Lines 95-99: the button of a new thread; st.rerun() starts the next run.
NewThread ==
    /\ fpc = "sidebar"
    /\ \E new_id \in Range(ThreadIds) \ DOMAIN threads :
           /\ threads' = PutThread(threads, new_id, Thread(NewTitle, <<>>))
           /\ current_thread_id' = new_id
    /\ fpc' = "load"
    /\ UNCHANGED <<access_token, actor_id, sent, memory_sessions_loaded, fetched>>
    /\ UNCHANGED <<decoderVars, turnVars, backendVars, memoryVars, oauthVars>>

\* Lines 107-115: the button of a thread of the list.
SelectThread ==
    /\ fpc = "sidebar"
    /\ \E thread_id \in DOMAIN threads : current_thread_id' = thread_id
    /\ fpc' = "load"
    /\ UNCHANGED <<access_token, actor_id, threads, sent, memory_sessions_loaded, fetched>>
    /\ UNCHANGED <<decoderVars, turnVars, backendVars, memoryVars, oauthVars>>

\* Lines 118-127 with the selection of the latest thread only: no thread
\* is made when there is none.
EnsureLatestOnly ==
    /\ fpc = "sidebar"
    /\ IF current_thread_id = JNull /\ DOMAIN threads # {}
       THEN current_thread_id' = Latest(DOMAIN threads)
       ELSE UNCHANGED current_thread_id
    /\ fpc' = "select"
    /\ UNCHANGED <<access_token, actor_id, threads, sent, memory_sessions_loaded, fetched>>
    /\ UNCHANGED <<decoderVars, turnVars, backendVars, memoryVars, oauthVars>>

\* Lines 118-127, no button pressed: without a current thread the latest
\* thread is selected, or a new one made when there is none.
EnsureThread ==
    /\ fpc = "sidebar"
    /\ IF current_thread_id # JNull THEN UNCHANGED <<current_thread_id, threads>>
       ELSE IF DOMAIN threads # {}
       THEN current_thread_id' = Latest(DOMAIN threads) /\ UNCHANGED threads
       ELSE \E new_id \in Range(ThreadIds) :
                /\ threads' = PutThread(threads, new_id, Thread(NewTitle, <<>>))
                /\ current_thread_id' = new_id
    /\ fpc' = "select"
    /\ UNCHANGED <<access_token, actor_id, sent, memory_sessions_loaded, fetched>>
    /\ UNCHANGED <<decoderVars, turnVars, backendVars, memoryVars, oauthVars>>

\* The title made of the first message of the user, if there is one.
FirstUserTitle(thread_messages, otherwise) ==
    LET users == SelectSeq(thread_messages, LAMBDA m : m.role = "user") IN
    IF users # <<>> /\ users[1].content # <<>> THEN TitleOf(users[1].content) ELSE otherwise

\* Lines 130-151: the current thread is read; when it has no messages and
\* a memory is configured, the transcript list_session_events returns
\* becomes its messages and its first user message its title.
LoadTranscript ==
    /\ fpc = "select"
    /\ LET current_thread == threads[current_thread_id] IN
       \E loaded_messages \in Histories :
           IF current_thread.messages = <<>> /\ loaded_messages # <<>>
           THEN threads' = PutThread(threads, current_thread_id,
                               Thread(FirstUserTitle(loaded_messages, current_thread.title),
                                      loaded_messages))
           ELSE UNCHANGED threads
    /\ fpc' = "chat"
    /\ UNCHANGED <<access_token, actor_id, current_thread_id, sent, memory_sessions_loaded, fetched>>
    /\ UNCHANGED <<decoderVars, turnVars, backendVars, memoryVars, oauthVars>>

\* Lines 164-217: a prompt is entered, invoke_agent_stream is called with
\* the token, the selected thread and the actor id, and the prompt and the
\* reply, if there is one, are appended to the thread.
SendPrompt ==
    /\ fpc = "chat"
    /\ Len(sent) < MaxSent
    /\ sent' = Append(sent, [access_token |-> access_token,
                             session_id |-> current_thread_id,
                             actor_id |-> actor_id])
    /\ LET current_thread == threads[current_thread_id] IN
       \E prompt \in Prompts, reply \in {<<>>, <<Message("assistant", Chars("hello"))>>} :
           LET after == Append(current_thread.messages, Message("user", prompt)) \o reply IN
           threads' = PutThread(threads, current_thread_id,
                          Thread(IF reply # <<>> /\ current_thread.title = NewTitle
                                 THEN FirstUserTitle(after, current_thread.title)
                                 ELSE current_thread.title,
                                 after))
    /\ fpc' = "end"
    /\ UNCHANGED <<access_token, actor_id, current_thread_id, memory_sessions_loaded, fetched>>
    /\ UNCHANGED <<decoderVars, turnVars, backendVars, memoryVars, oauthVars>>

\* The script has run to its end; any interaction starts the next run.
Rerun ==
    /\ fpc \in {"chat", "end"}
    /\ fpc' = "load"
    /\ UNCHANGED <<access_token, actor_id, current_thread_id, threads, sent,
                   memory_sessions_loaded, fetched>>
    /\ UNCHANGED <<decoderVars, turnVars, backendVars, memoryVars, oauthVars>>

FrontNext ==
    \/ LoadSessions
    \/ NewThread
    \/ SelectThread
    \/ EnsureThread
    \/ LoadTranscript
    \/ SendPrompt
    \/ Rerun

FrontSpec == FrontInit /\ [][FrontNext]_vars

(***************************************************************************)
(* The pagination loops: list_memory_sessions and list_session_events of   *)
(* src/frontend/runtime.py, list_sessions and list_messages of             *)
(* src/frontend/memory.py, list_gateway_tools of src/agentcore/gateway.py. *)
(* loop names the function running.  pages is what the store answers, its  *)
(* k-th answer to the k-th request: the items of a page and its token      *)
(* (None when it has none).  requests lists the parameters of the requests *)
(* made, collected the items gathered, result what the function returns.   *)
(* mpc: "request" in the loop, "convert" after the loop of the two         *)
(* transcript functions, "done" returned, "failed" returned [] from the    *)
(* except clause, "raised" left by an exception.                           *)
(***************************************************************************)
\* A str and the pieces json.loads reads in it.
Text(s, toks) == JVal("str", s, <<>>, toks)

\* The payload item of a conversational event, and the JSON text of a
\* message with one content block.
Conversational(role, text) ==
    Obj1("conversational", Obj2("role", JStr(role), "content", Obj1("text", text)))
MessageJson(label, block) ==
    Text(label, Ser(Obj1("message", Obj1("content", JList(<<block>>)))))

StoredEvent(ts, payload_items) == [eventTimestamp |-> ts, payload |-> JList(payload_items)]

Events ==
    { StoredEvent(1, <<Conversational("USER", Text("hello", <<Tok("raw", "hello")>>))>>),
      StoredEvent(2, <<Conversational("ASSISTANT", MessageJson("{hi}", Obj1("text", JStr("hi"))))>>),
      StoredEvent(3, <<Conversational("ASSISTANT",
                          MessageJson("{toolUse}", Obj1("toolUse", Obj1("name", JStr("search")))))>>),
      StoredEvent(4, <<Obj1("blob", JStr("x")),
                       Conversational("USER", MessageJson("{bye}", Obj1("text", JStr("bye")))),
                       Conversational("TOOL", Text("hello", <<Tok("raw", "hello")>>))>>),
      StoredEvent(5, <<Conversational("USER", Text("5", Ser(JNum("5"))))>>) }

\* The lists of items a page can hold, by the function that reads them:
\* for events none, one event, or the two oldest in either order.
ItemLists(l) ==
    IF l \in {"list_session_events", "list_messages"}
    THEN {<<>>} \cup {<<e>> : e \in Events}
         \cup {p \in Events \X Events : p[1] # p[2] /\ p[1].eventTimestamp + p[2].eventTimestamp = 3}
    ELSE {<<>>, <<JStr("s1")>>, <<JStr("s2")>>, <<JStr("s1"), JStr("s2")>>}

PageTokens(l) ==
    IF l \in {"list_session_events", "list_messages"}
    THEN {JNull, JStr("t1")}
    ELSE {JNull, JStr(""), JStr("t1"), JStr("t2")}

Scripts(l) ==
    UNION { [1..n -> [items : ItemLists(l), token : PageTokens(l)]] : n \in 1..MaxPages }

BotoLoops == {"list_memory_sessions", "list_sessions", "list_session_events", "list_messages"}

MemoryInit ==
    /\ loop \in BotoLoops \cup {"list_gateway_tools"}
    /\ pages \in Scripts(loop)
    /\ mpc = "request"
    /\ next_token = JNull
    /\ requests = <<>>
    /\ collected = <<>>
    /\ result = <<>>
    /\ DecoderAtRest /\ TurnAtRest /\ FrontAtRest /\ BackendAtRest /\ OAuthAtRest

\* runtime.py lines 137-143: nextToken is a parameter only when there is a
\* token.
ParamsNoToken(token) == EmptyDict
Params(token) == IF Truthy(token) THEN Obj1("nextToken", token) ELSE EmptyDict

\* runtime.py lines 136-153 and 200-216, memory.py lines 56-72 and
\* 118-133: one turn of the while loop, and the return behind it.
FetchPage ==
    /\ loop \in BotoLoops
    /\ mpc = "request"
    /\ Len(requests) < Len(pages)
    /\ LET response == pages[Len(requests) + 1] IN
       /\ requests' = Append(requests, Params(next_token))
       /\ collected' = collected \o response.items
       /\ next_token' = response.token
       /\ IF Truthy(response.token) THEN mpc' = "request" /\ UNCHANGED result
          ELSE IF loop \in {"list_session_events", "list_messages"}
          THEN mpc' = "convert" /\ UNCHANGED result
          ELSE mpc' = "done" /\ result' = collected'
    /\ UNCHANGED <<loop, pages, decoderVars, turnVars, frontVars, backendVars, oauthVars>>

\* gateway.py lines 63-72: the loop ends when the page's token is None.
FetchTools ==
    /\ loop = "list_gateway_tools"
    /\ mpc = "request"
    /\ Len(requests) < Len(pages)
    /\ LET tmp_tools == pages[Len(requests) + 1] IN
       /\ requests' = Append(requests, Obj1("pagination_token", next_token))
       /\ collected' = collected \o tmp_tools.items
       /\ IF tmp_tools.token = JNull
          THEN mpc' = "done" /\ result' = collected' /\ UNCHANGED next_token
          ELSE mpc' = "request" /\ next_token' = tmp_tools.token /\ UNCHANGED result
    /\ UNCHANGED <<loop, pages, decoderVars, turnVars, frontVars, backendVars, oauthVars>>

\* FetchFails with the items gathered so far returned.
FetchFailsPartial ==
    /\ mpc = "request"
    /\ Len(requests) < Len(pages)
    /\ mpc' = IF loop \in BotoLoops THEN "failed" ELSE "raised"
    /\ result' = collected
    /\ UNCHANGED <<loop, pages, next_token, requests, collected>>
    /\ UNCHANGED <<decoderVars, turnVars, frontVars, backendVars, oauthVars>>

\* The request raises: the except clause returns [] (runtime.py lines
\* 155-158, 251-253, memory.py lines 74-76, 147-149); list_gateway_tools
\* has none.
FetchFails ==
    /\ mpc = "request"
    /\ Len(requests) < Len(pages)
    /\ mpc' = IF loop \in BotoLoops THEN "failed" ELSE "raised"
    /\ result' = <<>>
    /\ UNCHANGED <<loop, pages, next_token, requests, collected>>
    /\ UNCHANGED <<decoderVars, turnVars, frontVars, backendVars, oauthVars>>

\* "message" in v and "content" in v["message"], and the like.
In2(v, k1, k2) ==
    LET inner(a) ==
            IF a.exc # "" \/ ~a.val THEN a
            ELSE LET second(b) == IF b.exc # "" THEN b ELSE PyContains(k2, b.val)
                 IN  second(PyGetItem(v, k1))
    IN  inner(PyContains(k1, v))

\* _extract_text_content without json.loads: the stored text as it is.
_extract_raw(text_raw) == Ok(text_raw)

\* memory.py lines 202-218, runtime.py lines 232-244: the text of the
\* first content block of a JSON message, "" when there is none, the raw
\* text when it is no JSON.
_extract_text_content(text_raw) ==
    LET text_of(first_content, has) ==
            IF has.exc # "" THEN has
            ELSE IF has.val THEN PyGetItem(first_content, "text")
            ELSE Ok(JStr(""))
        first_of(content_list) ==
            IF content_list.t # "list" \/ Len(content_list.vals) = 0 THEN Ok(JStr(""))
            ELSE text_of(content_list.vals[1], PyContains("text", content_list.vals[1]))
        content_of(data, c) ==
            IF c.exc # "" THEN c
            ELSE IF ~c.val THEN Ok(JStr(""))
            ELSE first_of(PyPath(data, <<"message", "content">>).val)
        loaded(parsed) ==
            IF parsed.exc # "" THEN Ok(text_raw)
            ELSE content_of(parsed.val, In2(parsed.val, "message", "content"))
    IN  loaded(json_loads(text_raw.vals))

\* memory.py lines 167-182, runtime.py lines 223-247: the message of one
\* payload item, as a list of none or one.
ItemMessages(item) ==
    LET message_of(role_raw, content) ==
            IF content.exc # "" THEN content
            ELSE IF ~Truthy(content.val) THEN Ok(<<>>)
            ELSE Ok(<<Message(IF role_raw = JStr("USER") THEN "user" ELSE "assistant",
                              content.val)>>)
        extracted(role_raw, text_raw) ==
            IF text_raw.exc # "" THEN text_raw
            ELSE IF ~Truthy(text_raw.val) THEN Ok(<<>>)
            ELSE message_of(role_raw, _extract_text_content(text_raw.val))
        text_in(role_raw, content) ==
            IF content.exc # "" THEN content
            ELSE extracted(role_raw, PyGet(content.val, "text", JStr("")))
        content_in(conv, role_raw) ==
            IF role_raw.exc # "" THEN role_raw
            ELSE text_in(role_raw.val, PyGet(conv, "content", EmptyDict))
        conversational(conv) == content_in(conv, PyGet(conv, "role", JStr("USER")))
        checked(has) ==
            IF has.exc # "" THEN has
            ELSE IF ~has.val THEN Ok(<<>>)
            ELSE conversational(DictAt(item, "conversational"))
    IN  checked(PyContains("conversational", item))

\* The messages of the items of one event: all of them (runtime.py lines
\* 221-247), or the first only (_parse_event_to_message of memory.py).
RECURSIVE EventMessages(_, _)
EventMessages(payload_items, first_only) ==
    IF payload_items = <<>> THEN Ok(<<>>)
    ELSE LET m == ItemMessages(Head(payload_items)) IN
         IF m.exc # "" THEN m
         ELSE IF first_only /\ m.val # <<>> THEN m
         ELSE LET rest == EventMessages(Tail(payload_items), first_only) IN
              IF rest.exc # "" THEN rest ELSE Ok(m.val \o rest.val)

RECURSIVE ToMessages(_, _)
ToMessages(events, first_only) ==
    IF events = <<>> THEN Ok(<<>>)
    ELSE LET m == EventMessages(Head(events).payload.vals, first_only) IN
         IF m.exc # "" THEN m
         ELSE LET rest == ToMessages(Tail(events), first_only) IN
              IF rest.exc # "" THEN rest ELSE Ok(m.val \o rest.val)

\* sorted(events, key=lambda e: e.get('eventTimestamp', '')): a stable sort.
RECURSIVE SortedByTimestamp(_)
SortedByTimestamp(events) ==
    IF events = <<>> THEN <<>>
    ELSE LET e == Head(events)
             rest == SortedByTimestamp(Tail(events))
         IN  SelectSeq(rest, LAMBDA x : x.eventTimestamp < e.eventTimestamp)
             \o <<e>>
             \o SelectSeq(rest, LAMBDA x : x.eventTimestamp >= e.eventTimestamp)

\* What the function returns for the messages made: [] when an exception
\* reached the except clause.
Return(m) ==
    /\ result' = IF m.exc # "" THEN <<>> ELSE m.val
    /\ mpc' = IF m.exc # "" THEN "failed" ELSE "done"

\* runtime.py lines 218-253: list_session_events converts the events in
\* the order of the store.
ConvertEvents ==
    /\ loop = "list_session_events"
    /\ mpc = "convert"
    /\ Return(ToMessages(collected, FALSE))
    /\ UNCHANGED <<loop, pages, next_token, requests, collected>>
    /\ UNCHANGED <<decoderVars, turnVars, frontVars, backendVars, oauthVars>>

\* memory.py lines 135-149: list_messages sorts the events by timestamp
\* and converts them.
ConvertSorted ==
    /\ loop = "list_messages"
    /\ mpc = "convert"
    /\ Return(ToMessages(SortedByTimestamp(collected), TRUE))
    /\ UNCHANGED <<loop, pages, next_token, requests, collected>>
    /\ UNCHANGED <<decoderVars, turnVars, frontVars, backendVars, oauthVars>>

MemoryNext ==
    \/ FetchPage
    \/ FetchTools
    \/ FetchFails
    \/ ConvertEvents
    \/ ConvertSorted

MemorySpec == MemoryInit /\ [][MemoryNext]_vars

(***************************************************************************)
(* The OAuth2 callback of src/frontend/identity.py.  query_params are the  *)
(* query parameters of the URL, calls the calls of                         *)
(* complete_resource_token_auth made so far, returned the values the calls *)
(* of handle_oauth2_callback have returned, one for each run of the        *)
(* script.  cpc is the position inside handle_oauth2_callback: "idle"      *)
(* between two calls, "client" before boto3.client, "complete" before the  *)
(* completion call.                                                        *)
(***************************************************************************)
MaxRuns == 3

\* The URLs a run can start with: with or without session_id, which may be
\* empty, and with or without another parameter.
OAuthQueries ==
    { Merge(s, c) : s \in Opt("session_id", {JStr(""), JStr("sid-1"), JStr("sid-2")}),
                    c \in Opt("code", {JStr("xyz")}) }

OAuthInit ==
    /\ query_params \in OAuthQueries
    /\ calls = <<>>
    /\ cpc = "idle"
    /\ returned = <<>>
    /\ actor_id \in {JStr("user-1"), JStr("")}
    /\ access_token = <<>> /\ current_thread_id = JNull /\ threads = <<>> /\ sent = <<>>
    /\ memory_sessions_loaded = FALSE /\ fetched = <<>> /\ fpc = "off"
    /\ DecoderAtRest /\ TurnAtRest /\ BackendAtRest /\ MemoryAtRest

\* The external service redirects the browser to the application.
Redirect ==
    /\ cpc = "idle"
    /\ query_params' \in OAuthQueries \ {query_params}
    /\ UNCHANGED <<calls, cpc, returned>>
    /\ UNCHANGED <<decoderVars, turnVars, frontVars, backendVars, memoryVars>>

\* Lines 108-112: without a session_id the function returns False.
CallbackEntry ==
    /\ cpc = "idle"
    /\ Len(returned) < MaxRuns
    /\ IF ~Truthy(Get(query_params, "session_id"))
       THEN returned' = Append(returned, FALSE) /\ UNCHANGED cpc
       ELSE cpc' = "client" /\ UNCHANGED returned
    /\ UNCHANGED <<query_params, calls>>
    /\ UNCHANGED <<decoderVars, turnVars, frontVars, backendVars, memoryVars>>

\* Lines 143-147: the except clause clears the query parameters and
\* returns True.
CallbackExcept ==
    /\ query_params' = EmptyDict
    /\ returned' = Append(returned, TRUE)
    /\ cpc' = "idle"

\* Lines 116-127: the client is made, or making it raises.
CreateClient ==
    /\ cpc = "client"
    /\ \/ cpc' = "complete" /\ UNCHANGED <<query_params, returned>>
       \/ CallbackExcept
    /\ UNCHANGED calls
    /\ UNCHANGED <<decoderVars, turnVars, frontVars, backendVars, memoryVars>>

\* Lines 130-141: the completion call; the query parameters are cleared
\* and True is returned, here or in the except clause when the call raises.
CompleteAuthSkipped ==
    /\ cpc = "complete"
    /\ UNCHANGED calls
    /\ CallbackExcept
    /\ UNCHANGED <<decoderVars, turnVars, frontVars, backendVars, memoryVars>>

CompleteAuth ==
    /\ cpc = "complete"
    /\ calls' = Append(calls, [sessionUri |-> Get(query_params, "session_id"),
                               userId |-> actor_id])
    /\ \/ /\ query_params' = EmptyDict
          /\ returned' = Append(returned, TRUE)
          /\ cpc' = "idle"
       \/ CallbackExcept
    /\ UNCHANGED <<decoderVars, turnVars, frontVars, backendVars, memoryVars>>

OAuthNext ==
    \/ Redirect
    \/ CallbackEntry
    \/ CreateClient
    \/ CompleteAuth

OAuthSpec == OAuthInit /\ [][OAuthNext]_vars

(***************************************************************************)
(* C1.  A response whose status is not 200 yields exactly one event, of    *)
(* type "error", and then the sequence ends: no line of the body is read   *)
(* and no text or tool_use event is emitted, whatever the body holds.      *)
(***************************************************************************)
C1_ErrorOnly ==
    status_code # 200 =>
        /\ pos = 0
        /\ pc \in {"request", "yield_error", "done"}
        /\ out = IF pc = "request" THEN <<>> ELSE <<ErrorEvent>>

C1_Witness ==
    /\ status_code # 200
    /\ pc = "done"
    /\ Len(body) = MaxLines
    /\ body[1] = LineOf(DataHello)
    /\ Len(out) = 1 /\ out[1].type = "error"

(***************************************************************************)
(* C2.  Events are emitted in the order of the lines that produced them,   *)
(* and none is held back across lines: at every moment the events yielded  *)
(* are those of the lines read before the current one, line by line,       *)
(* followed by a prefix of the events of the current line; they are all    *)
(* there when the next line is about to be read.                           *)
(***************************************************************************)
C2_LineOrder ==
    status_code = 200 =>
        /\ Len(src) = Len(out)
        /\ \A i, j \in DOMAIN src : i < j => src[i] <= src[j]
        /\ \A i \in DOMAIN src : 1 <= src[i] /\ src[i] <= pos
        /\ IF pos = 0 THEN out = <<>>
           ELSE LET before == EventsOfLines(SubSeq(body, 1, pos - 1))
                    all == before \o EventsAt(body[pos])
                IN  /\ IsPrefixOf(before, out)
                    /\ IsPrefixOf(out, all)
                    /\ pc \in {"loop", "done", "raised"} => out = all

C2_Witness ==
    /\ pc = "done"
    /\ Len(out) = 2
    /\ src = <<1, 2>>
    /\ out[1].type = "tool_use"
    /\ out[2].type = "text"
(***************************************************************************)
(* The classes of lines the statements below are about, read off the       *)
(* bytes of the line and the value its payload denotes.                    *)
(***************************************************************************)
Absent == JVal("absent", "", <<>>, <<>>)

\* v[key] when v is an object that has the key, else Absent.
Field(v, key) ==
    IF v.t = "obj" /\ key \in Range(v.keys) THEN DictAt(v, key) ELSE Absent

RECURSIVE FieldPath(_, _)
FieldPath(v, path) ==
    IF path = <<>> THEN v ELSE FieldPath(Field(v, Head(path)), Tail(path))

HasPrefix(line) == line # <<>> /\ Head(line) = DataPrefix
QuotedPayload(line) == Len(line) >= 2 /\ HasPrefix(line) /\ line[2].k \in {"dq", "sq"}
IsUtf8(line) == \A i \in DOMAIN line : line[i].k # "bad"

\* The line about to be read.
AtLine == pc = "loop" /\ pos < Len(body)
NextLine == body[pos + 1]

\* The line is passed over: nothing yielded, nothing raised, on to the next.
PassedOver == out' = out /\ pc' = "loop" /\ exc' = "" /\ pos' = pos + 1

\* The three shapes of section 6.
DataShape(v) == Field(v, "data").t = "str"
DeltaShape(v) == FieldPath(v, <<"event", "contentBlockDelta", "delta">>).t = "obj"
ToolShape(v) ==
    /\ FieldPath(v, <<"event", "contentBlockStart", "start">>).t = "obj"
    /\ FieldPath(v, <<"event", "contentBlockStart", "start", "toolUse">>) # Absent

(***************************************************************************)
(* C3.  A line that is empty or does not begin with "data: " yields no     *)
(* event and the handler continues with the next line.                     *)
(* Refuted: a line that is not UTF-8 raises UnicodeDecodeError at line 67, *)
(* before the prefix is looked at.                                         *)
(***************************************************************************)
C3_NonDataSkipped ==
    [][(AtLine /\ ~HasPrefix(NextLine)) => PassedOver]_vars

(***************************************************************************)
(* C4.  A "data: " line whose payload begins with a double or single quote *)
(* yields no event, valid JSON or not; the check comes before json.loads,  *)
(* so a line that is UTF-8 is passed over whatever its string contains.    *)
(***************************************************************************)
C4_QuotedIgnored ==
    [][(AtLine /\ QuotedPayload(NextLine)) =>
          /\ out' = out
          /\ IsUtf8(NextLine) => PassedOver]_vars

C4_Witness ==
    /\ pc = "done"
    /\ body = <<<<DataPrefix, DQ("an event")>>, <<DataPrefix, Tok("sq", "'hello'")>>>>
    /\ out = <<>>

(***************************************************************************)
(* C5.  A "data: " line whose payload is a JSON object with a string       *)
(* "data" field yields exactly one text event, whose text is that string.  *)
(* Refuted: with an "event" field that is no object the tool block raises  *)
(* before the text block is reached (the unguarded lookups of C10).        *)
(***************************************************************************)
C5_DataText ==
    \A n \in 1..pos :
        (Finished(n) /\ StageAt(body[n]) = "parsed" /\ DataShape(ParsedAt(body[n]))) =>
            \E i \in DOMAIN out :
                /\ YieldedOfType(n, "text") = {i}
                /\ out[i].text = Field(ParsedAt(body[n]), "data")

(***************************************************************************)
(* C6.  A "data: " line of the shape {"event": {"contentBlockDelta":       *)
(* {...}}} yields exactly one text event carrying delta.text when that is  *)
(* a non-empty string, and yields nothing and raises nothing when it is    *)
(* empty or absent, also when "delta" itself is absent.                    *)
(* Refuted: without "delta" the lookup of line 90 raises KeyError.         *)
(***************************************************************************)
DeltaOnly(v) ==
    /\ v.t = "obj" /\ v.keys = <<"event">>
    /\ Field(v, "event").t = "obj" /\ Field(v, "event").keys = <<"contentBlockDelta">>
    /\ FieldPath(v, <<"event", "contentBlockDelta">>).t = "obj"
    /\ FieldPath(v, <<"event", "contentBlockDelta", "delta">>).t \in {"obj", "absent"}

C6_DeltaText ==
    \A n \in 1..pos :
        (Finished(n) /\ StageAt(body[n]) = "parsed" /\ DeltaOnly(ParsedAt(body[n]))) =>
            LET text == FieldPath(ParsedAt(body[n]), <<"event", "contentBlockDelta", "delta", "text">>)
            IN  /\ (text.t = "str" /\ text.s # "") =>
                       \E i \in DOMAIN out : Yielded(n) = {i} /\ out[i] = [type |-> "text", text |-> text]
                /\ (text = Absent \/ text = JStr("")) =>
                       Yielded(n) = {} /\ ~(pc = "raised" /\ pos = n)

(***************************************************************************)
(* C7.  A "data: " line of the shape {"event": {"contentBlockStart":       *)
(* {"start": {"toolUse": {...}}}}} yields exactly one tool_use event,      *)
(* whose tool_name is toolUse.name, or "unknown" when there is no name; a  *)
(* contentBlockStart whose start object has no toolUse yields no tool_use  *)
(* event.                                                                  *)
(***************************************************************************)
C7_ToolUse ==
    \A n \in 1..pos :
        (Finished(n) /\ StageAt(body[n]) = "parsed") =>
            LET v == ParsedAt(body[n])
                cbs == FieldPath(v, <<"event", "contentBlockStart">>)
                toolUse == FieldPath(cbs, <<"start", "toolUse">>)
            IN  /\ toolUse.t = "obj" =>
                       \E i \in DOMAIN out :
                           /\ YieldedOfType(n, "tool_use") = {i}
                           /\ out[i].tool_name =
                                  IF Field(toolUse, "name") = Absent THEN JStr("unknown")
                                  ELSE Field(toolUse, "name")
                /\ (cbs.t = "obj" /\ Field(cbs, "start").t \in {"obj", "absent"}
                        /\ toolUse = Absent) =>
                       YieldedOfType(n, "tool_use") = {}

C7_Witness ==
    /\ pc = "done"
    /\ body = << LineOf(Obj1("event", StartOf(Obj1("start", Obj1("toolUse", EmptyDict))))),
                 LineOf(Obj1("event", ToolSearch)) >>
    /\ out = << [type |-> "tool_use", tool_name |-> JStr("unknown")],
                [type |-> "tool_use", tool_name |-> JStr("search")] >>

NotJsonLines ==
    {l \in LineSet : IsUtf8(l) /\ HasPrefix(l) /\ json_loads(Tail(l)).exc # ""}
NotJson(line) == line \in NotJsonLines

C9_Step == (AtLine /\ NotJson(NextLine)) => PassedOver

C9_Later ==
    \A n \in 1..pos :
        NotJson(body[n]) =>
            /\ Yielded(n) = {}
            /\ ~(pc = "raised" /\ pos = n)
            /\ (pc = "done" => pos = Len(body))
            /\ \A m \in (n + 1)..pos :
                   Finished(m) => Cardinality(Yielded(m)) = Len(EventsAt(body[m]))

Unrecognized(v) == ~DataShape(v) /\ ~DeltaShape(v) /\ ~ToolShape(v)

C10_UnrecognizedDropped ==
    [][(AtLine /\ StageAt(NextLine) = "parsed" /\ Unrecognized(ParsedAt(NextLine)))
          => PassedOver]_vars

(***************************************************************************)
(* The texts of a turn.                                                    *)
(***************************************************************************)
TextEvents(evs) == SelectSeq(evs, LAMBDA e : e.type = "text")

\* The texts of text events put together; a text that is no str stands as
\* one item that no character equals.
RECURSIVE TextOf(_)
TextOf(evs) ==
    IF evs = <<>> THEN <<>>
    ELSE (IF Head(evs).text.t = "str" THEN Chars(Head(evs).text.s) ELSE <<Head(evs).text>>)
         \o TextOf(Tail(evs))

\* The text a line carries: the string "data" field of its JSON object,
\* or else the string delta.text of its contentBlockDelta.
Carried(line) ==
    IF StageAt(line) # "parsed" THEN <<>>
    ELSE LET v == ParsedAt(line)
             text == FieldPath(v, <<"event", "contentBlockDelta", "delta", "text">>)
         IN  IF DataShape(v) THEN Chars(Field(v, "data").s)
             ELSE IF text.t = "str" THEN Chars(text.s)
             ELSE <<>>

RECURSIVE ReplyText(_)
ReplyText(lines) ==
    IF lines = <<>> THEN <<>> ELSE Carried(Head(lines)) \o ReplyText(Tail(lines))

(***************************************************************************)
(* C11.  With status 200, when the turn is over the texts of the text      *)
(* events yielded, put together in the order of emission, are the reply    *)
(* text: the texts the lines of the body carry, in the order of arrival.   *)
(* Refuted: a line that raises (C3, C10) ends the generator, and the text  *)
(* of the lines after it, or of that line itself, is never emitted.        *)
(***************************************************************************)
C11_Reassembly ==
    (status_code = 200 /\ pc \in {"done", "raised"}) =>
        TextOf(TextEvents(out)) = ReplyText(body)

(***************************************************************************)
(* C19.  Decoding is lazy: a line is read only when every event of the     *)
(* lines before it has been yielded, one line is read at a time, and a     *)
(* step that yields hands over one event, of the line read last.           *)
(***************************************************************************)
C19_Step ==
    /\ pos' # pos =>
           /\ pos' = pos + 1
           /\ pc = "loop"
           /\ out = EventsOfLines(SubSeq(body, 1, pos))
    /\ out' # out =>
           /\ Len(out') = Len(out) + 1
           /\ SubSeq(out', 1, Len(out)) = out
           /\ src'[Len(out')] = pos'
           /\ pc' \in {"yield_error", "yield_tool", "yield_text"}
    /\ (status_code = 200 /\ pos' # pos /\ EventsAt(body[pos']) # <<>>) =>
           out' = Append(out, EventsAt(body[pos'])[1])

C19_Lazy == [][C19_Step]_vars

C19_Witness ==
    /\ pc = "yield_text"
    /\ pos = 1
    /\ Len(body) = 2
    /\ body[2] = LineOf(Obj1("event", DeltaHi))
    /\ out = << [type |-> "text", text |-> JStr("hello")] >>

(***************************************************************************)
(* C20.  Round trip: writing each text event yielded as a line             *)
(* data: {"data": <text>} and decoding those lines with status 200 gives   *)
(* the same text events, in number, order and text.                        *)
(* Refuted: line 90 takes delta.text as it is, so a text that is no        *)
(* string is yielded, and written back as "data" it is no text event.      *)
(***************************************************************************)
Resent(evs) == [i \in DOMAIN evs |-> LineOf(Obj1("data", evs[i].text))]

C20_RoundTrip ==
    status_code = 200 =>
        DecodeAll(Resent(TextEvents(out))) = TextEvents(out)

(***************************************************************************)
(* The turn as main_app leaves it.                                         *)
(***************************************************************************)
LastMessage == messages[Len(messages)]
ErrorHandled == \E i \in 1..handled : out[i].type = "error"

(***************************************************************************)
(* C12.  When the turn is over, the reply recorded in the thread is the    *)
(* texts of all the text events of the turn put together in order, the     *)
(* text received before a tool_use event included: when that reply is not  *)
(* empty, it is the content of the assistant message the turn appended.    *)
(* Refuted: lines 194-196 empty buffer at every tool_use event, and        *)
(* buffer is what lines 210-211 record.                                    *)
(***************************************************************************)
C12_RecordedReply ==
    (app = "end" /\ TextOf(TextEvents(out)) # <<>>) =>
        LastMessage = Message("assistant", TextOf(TextEvents(out)))

(***************************************************************************)
(* C13.  An error event is terminal for the turn: once main_app has        *)
(* handled an event of type "error" it handles no further event, the       *)
(* generator yields none, and the turn appends no assistant message: the   *)
(* user's prompt stays the last message of the thread.                     *)
(***************************************************************************)
C13_After ==
    ErrorHandled =>
        /\ app \in {"after", "end"}
        /\ handled = 1 /\ Len(out) = 1
        /\ buffer = <<>>
        /\ LastMessage.role = "user" /\ LastMessage.content \in Prompts

C13_Step == ErrorHandled => (handled' = handled /\ out' = out /\ pos' = pos)

C13_ErrorTerminal == []C13_After /\ [][C13_Step]_vars

C13_Witness ==
    /\ app = "end"
    /\ ErrorHandled
    /\ Len(body) = MaxTurnLines
    /\ body[1] = LineOf(DataHello)
    /\ Len(messages) = 3

(***************************************************************************)
(* C18.  The connection the turn opened is closed on every way out of the  *)
(* turn: the stream read to its end, the error return, the break on an     *)
(* error event, an exception while decoding.                               *)
(* Refuted: no exit path closes the response; the connection is given back *)
(* only when the body has been read to its end, so an exception in the     *)
(* loop of line 63, or in the loop body of main_app, leaves it open.       *)
(***************************************************************************)
C18_Closed ==
    app \in {"end", "raised"} => conn = "closed"

(***************************************************************************)
(* C14.  In both backend entry points, a payload whose access_token,       *)
(* actor_id, session_id or gateway_url is absent or empty (None, "") gets  *)
(* exactly one reply, an error message, and invoke ends having created no  *)
(* session manager, no gateway client and no agent and having run nothing; *)
(* whatever is created is given the values of the payload, never a         *)
(* default.                                                                *)
(***************************************************************************)
IdentityFields == {"access_token", "actor_id", "session_id", "gateway_url"}
Missing(key) == Field(payload, key) \in {Absent, JNull, JStr("")}

C14_MissingRefused ==
    /\ (\E key \in IdentityFields : Missing(key)) =>
           /\ made = <<>>
           /\ bpc \in {"start", "gateway", "done"}
           /\ Len(replies) = IF bpc = "done" THEN 1 ELSE 0
           /\ \A i \in DOMAIN replies : replies[i].kind = "error"
    /\ \A i \in DOMAIN made :
           \/ made[i].what = "run"
           \/ \A j \in DOMAIN made[i].args :
                  \E key \in IdentityFields :
                      ~Missing(key) /\ made[i].args[j] = Field(payload, key)

C14_Witness ==
    /\ entry = "main"
    /\ bpc = "done"
    /\ Field(payload, "access_token") = JStr("jwt")
    /\ Field(payload, "actor_id") = JStr("user-1")
    /\ Field(payload, "session_id") = Uuid
    /\ Field(payload, "gateway_url") = JStr("")
    /\ replies = <<ErrorReply("gateway_url missing")>>
    /\ made = <<>>

(***************************************************************************)
(* C15.  No agent-execution request of the front end carries an absent or  *)
(* empty access token, session id or actor id; in particular the actor id  *)
(* is never the empty string put in place of a "sub" that could not be     *)
(* read.                                                                   *)
(* Refuted: get_cognito_sub returns "" for a token without a readable      *)
(* "sub" (lines 20, 22) and lines 179-187 send it as actor_id unchecked.   *)
(***************************************************************************)
C15_NoEmptyIdentity ==
    \A i \in DOMAIN sent :
        /\ sent[i].access_token # <<>>
        /\ sent[i].session_id \notin {JNull, JStr("")}
        /\ sent[i].actor_id \notin {JNull, JStr("")}

(***************************************************************************)
(* C16.  The transcript lists messages oldest event first: whatever the    *)
(* order of the events in the pages of the store, the messages             *)
(* list_session_events and list_messages return are in ascending order of  *)
(* the timestamps of their events.                                         *)
(* Refuted: list_session_events (runtime.py), the one main_app calls,      *)
(* converts the events in the order of the store; only list_messages       *)
(* (memory.py line 136) sorts them.                                        *)
(***************************************************************************)
TimestampOf(m) ==
    CHOOSE t \in {e.eventTimestamp : e \in Events} :
        \E e \in Events :
            e.eventTimestamp = t /\ m \in Range(ToMessages(<<e>>, FALSE).val)

C16_OldestFirst ==
    (loop \in {"list_session_events", "list_messages"} /\ mpc = "done") =>
        \A i, j \in DOMAIN result :
            i < j => TimestampOf(result[i]) <= TimestampOf(result[j])

(***************************************************************************)
(* The token a request carries (None when it carries none), and the two    *)
(* halves of C17.                                                          *)
(***************************************************************************)
SentToken(k) == IF requests[k].keys = <<>> THEN JNull ELSE requests[k].vals[1]

RECURSIVE ItemsOf(_)
ItemsOf(ps) == IF ps = <<>> THEN <<>> ELSE Head(ps).items \o ItemsOf(Tail(ps))

\* The k-th request is for the k-th page and carries the token of the
\* page before; what is gathered is the items of the pages in page order.
C17_Followed ==
    /\ Len(requests) <= Len(pages)
    /\ requests # <<>> => SentToken(1) = JNull
    /\ \A k \in 2..Len(requests) : SentToken(k) = pages[k - 1].token
    /\ collected = ItemsOf(SubSeq(pages, 1, Len(requests)))
    /\ (mpc = "done" /\ loop \notin {"list_session_events", "list_messages"}) =>
           result = collected

\* The loop goes on after a page exactly when its token is none of ends.
C17_Ends(ends) ==
    /\ \A k \in 1..(Len(requests) - 1) : pages[k].token \notin ends
    /\ mpc \in {"convert", "done"} =>
           requests # <<>> /\ pages[Len(requests)].token \in ends
    /\ (mpc = "request" /\ requests # <<>>) => pages[Len(requests)].token \notin ends

(***************************************************************************)
(* C17.  As stated: every pagination loop follows the token, and ends as   *)
(* soon as a page has no token or an empty one.                            *)
(* Refuted: list_gateway_tools ends only on None (gateway.py line 67); an  *)
(* empty token is sent on as the next request's pagination_token.          *)
(***************************************************************************)
C17_EndsOnNoneOrEmpty ==
    loop # "off" => C17_Followed /\ C17_Ends({JNull, JStr("")})

(***************************************************************************)
(* C17, amended.  The first request carries no token, each later request   *)
(* carries exactly the token of the page before, each page is requested    *)
(* once, and the result is the items of all pages in page order.  The      *)
(* loops over the memory store end as soon as a page has no token or an    *)
(* empty one; list_gateway_tools ends as soon as a page has no token       *)
(* (None), and follows an empty token like any other.                      *)
(***************************************************************************)
C17_TokenFollowed ==
    loop # "off" =>
        /\ C17_Followed
        /\ C17_Ends(IF loop = "list_gateway_tools" THEN {JNull} ELSE {JNull, JStr("")})

C17_Witness ==
    /\ loop = "list_memory_sessions"
    /\ mpc = "done"
    /\ Len(requests) = 2
    /\ requests = <<EmptyDict, Obj1("nextToken", JStr("t2"))>>
    /\ pages[2].token = JStr("")
    /\ result = <<JStr("s2"), JStr("s1"), JStr("s2")>>

(***************************************************************************)
(* C21.  validate_identity_params returns None exactly when access_token,  *)
(* actor_id and session_id are all non-empty and session_id has at least   *)
(* 33 characters; otherwise it returns the message of the first failing    *)
(* check, in the order access_token, actor_id, session_id presence,        *)
(* session_id length.  Read off invoke of main.py, which yields the        *)
(* message and returns, or goes on to the gateway check.                   *)
(***************************************************************************)
IdentityMessages ==
    {"access_token missing", "actor_id missing", "session_id missing",
     "session_id shorter than 33"}

\* The message the statement asks for, "" for None.
FirstFailing ==
    IF Missing("access_token") THEN "access_token missing"
    ELSE IF Missing("actor_id") THEN "actor_id missing"
    ELSE IF Missing("session_id") THEN "session_id missing"
    ELSE IF Len(Field(payload, "session_id").s) < 33 THEN "session_id shorter than 33"
    ELSE ""

C21_FirstFailingCheck ==
    (entry = "main" /\ bpc # "start") =>
        IF FirstFailing = ""
        THEN \A i \in DOMAIN replies : replies[i].text \notin IdentityMessages
        ELSE bpc = "done" /\ replies = <<ErrorReply(FirstFailing)>> /\ made = <<>>

C21_Witness ==
    /\ entry = "main"
    /\ bpc = "done"
    /\ Field(payload, "access_token") = JStr("jwt")
    /\ Field(payload, "actor_id") = JStr("user-1")
    /\ Field(payload, "session_id") = Id32
    /\ replies = <<ErrorReply("session_id shorter than 33")>>

(***************************************************************************)
(* C22.  The transcript keeps only text messages.  Every message returned  *)
(* by list_session_events and list_messages has a non-empty content and    *)
(* the role "user" exactly when the stored role is USER, "assistant"       *)
(* otherwise.  A conversational item whose stored text is JSON with a      *)
(* message.content[0] that has no "text" key gives no message; stored text *)
(* that is no JSON is the content, unchanged.  list_session_events returns *)
(* the messages of all items in stored order, list_messages the first      *)
(* message of each event.                                                  *)
(***************************************************************************)
StoredText(item) == FieldPath(item, <<"conversational", "content", "text">>)
StoredRole(item) == FieldPath(item, <<"conversational", "role">>)
RoleOf(item) == IF StoredRole(item) = JStr("USER") THEN "user" ELSE "assistant"

\* The text of the first content block of a stored JSON message, Absent
\* when it has none.
BlockText(v) ==
    LET content == FieldPath(v, <<"message", "content">>) IN
    IF content.t = "list" /\ content.vals # <<>> THEN Field(content.vals[1], "text") ELSE Absent

\* The messages the statement asks of one payload item: none or one.
TextMessage(item) ==
    LET of(text, loaded) ==
            IF text.t # "str" \/ text.s = "" THEN <<>>
            ELSE IF loaded.exc # "" THEN <<Message(RoleOf(item), text)>>
            ELSE LET inner(block) ==
                         IF block.t = "str" /\ block.s # ""
                         THEN <<Message(RoleOf(item), block)>> ELSE <<>>
                 IN  inner(BlockText(loaded.val))
    IN  of(StoredText(item), json_loads(StoredText(item).vals))

RECURSIVE TextMessages(_)
TextMessages(payload_items) ==
    IF payload_items = <<>> THEN <<>>
    ELSE TextMessage(Head(payload_items)) \o TextMessages(Tail(payload_items))

RECURSIVE Transcript(_, _)
Transcript(events, first_only) ==
    IF events = <<>> THEN <<>>
    ELSE LET all == TextMessages(Head(events).payload.vals) IN
         (IF first_only /\ all # <<>> THEN <<all[1]>> ELSE all)
         \o Transcript(Tail(events), first_only)

C22_TextOnly ==
    (loop \in {"list_session_events", "list_messages"} /\ mpc = "done") =>
        /\ \A i \in DOMAIN result :
               /\ result[i].content.t = "str" /\ result[i].content.s # ""
               /\ result[i].role \in {"user", "assistant"}
        /\ loop = "list_session_events" => result = Transcript(collected, FALSE)
        /\ loop = "list_messages" =>
               /\ Len(result) = Len(Transcript(collected, TRUE))
               /\ Range(result) = Range(Transcript(collected, TRUE))

\* A tool call, a plain text kept as it is stored with the role of a
\* stored role that is not USER, and a JSON text, in one transcript.
C22_Witness ==
    /\ loop = "list_session_events"
    /\ mpc = "done"
    /\ Len(collected) = 2
    /\ collected[1].eventTimestamp = 3
    /\ collected[2].eventTimestamp = 4
    /\ result = << Message("user", JStr("bye")),
                   Message("assistant", Text("hello", <<Tok("raw", "hello")>>)) >>

(***************************************************************************)
(* The steps of handle_oauth2_callback the statements of C23 are about:    *)
(* the step that reads session_id, and the step that returns after the     *)
(* spinner block was entered.                                              *)
(***************************************************************************)
ReadsSessionId == cpc = "idle" /\ (cpc' = "client" \/ Len(returned') = Len(returned) + 1)
ReturnsFromBlock == cpc \in {"client", "complete"} /\ cpc' = "idle"

\* False is returned and nothing else changes.
ReturnsFalse ==
    /\ returned' = Append(returned, FALSE)
    /\ cpc' = "idle"
    /\ query_params' = query_params
    /\ calls' = calls

\* One call of the completion API, for the session of the URL and the user.
CalledOnce ==
    calls' = Append(calls, [sessionUri |-> Field(query_params, "session_id"), userId |-> actor_id])

ClearedAndTrue == query_params' = EmptyDict /\ returned' = Append(returned, TRUE)

(***************************************************************************)
(* C23.  As stated: handle_oauth2_callback returns False and changes       *)
(* nothing when the URL has no session_id query parameter; when session_id *)
(* is present it calls the completion API once, clears the query           *)
(* parameters whether the call succeeds or raises, and returns True.       *)
(* Refuted: a session_id that is present and empty ("?session_id=")        *)
(* returns False at line 111 with the query parameters untouched; and when *)
(* making the client raises (lines 118-127 are inside the try), True is    *)
(* returned without a call of the completion API.                          *)
(***************************************************************************)
C23_PresentHandled ==
    [][/\ ReadsSessionId =>
              IF Field(query_params, "session_id") = Absent THEN ReturnsFalse
              ELSE cpc' = "client" /\ UNCHANGED <<query_params, calls, returned>>
       /\ ReturnsFromBlock => CalledOnce /\ ClearedAndTrue
       /\ ~ReturnsFromBlock => calls' = calls]_vars

(***************************************************************************)
(* C23, amended.  handle_oauth2_callback returns False and changes nothing *)
(* when the URL has no session_id query parameter or an empty one.  With a *)
(* non-empty session_id it clears the query parameters and returns True on *)
(* every path, so that the next run returns False; it calls the completion *)
(* API once, for that session_id and the actor id, unless making the       *)
(* client raised, and then it calls it not at all.                         *)
(***************************************************************************)
C23_NonEmptyHandled ==
    [][/\ ReadsSessionId =>
              IF Field(query_params, "session_id") \in {Absent, JStr("")} THEN ReturnsFalse
              ELSE cpc' = "client" /\ UNCHANGED <<query_params, calls, returned>>
       /\ ReturnsFromBlock =>
              /\ ClearedAndTrue
              /\ IF cpc = "complete" THEN CalledOnce ELSE calls' = calls
       /\ ~ReturnsFromBlock => calls' = calls]_vars

\* A callback handled with one call, and False returned by the next run.
C23_Witness ==
    /\ cpc = "idle"
    /\ returned = <<TRUE, FALSE>>
    /\ query_params = EmptyDict
    /\ calls = <<[sessionUri |-> JStr("sid-1"), userId |-> JStr("user-1")]>>

(***************************************************************************)
(* C24.  As stated: every text event emitted by invoke_agent_stream        *)
(* carries a non-empty text, whichever of the two text shapes the line     *)
(* used.                                                                   *)
(* Refuted: line 87 yields the top-level "data" string as it is, also when *)
(* it is empty; only the nested delta text is tested (line 91).            *)
(***************************************************************************)
C24_NonEmptyText ==
    \A i \in DOMAIN out : out[i].type = "text" => out[i].text # JStr("")

(***************************************************************************)
(* C24, amended.  A text event made of a nested contentBlockDelta carries  *)
(* a text that is not empty: an empty or absent delta text emits nothing.  *)
(* A text event made of a top-level "data" string carries that string as   *)
(* it is, the empty string included.                                       *)
(***************************************************************************)
C24_NonEmptyDelta ==
    status_code = 200 =>
        \A i \in DOMAIN out :
            out[i].type = "text" =>
                IF DataShape(ParsedAt(body[src[i]]))
                THEN out[i].text = Field(ParsedAt(body[src[i]]), "data")
                ELSE out[i].text \notin {JStr(""), JNull, Absent}

\* An empty "data" string emitted and an empty delta text passed over.
C24_Witness ==
    /\ pc = "done"
    /\ body = << LineOf(Obj1("data", JStr(""))),
                 LineOf(Obj1("event", DeltaOf(Obj1("delta", Obj1("text", JStr("")))))) >>
    /\ out = <<[type |-> "text", text |-> JStr("")]>>

(***************************************************************************)
(* C25.  After the thread-selection step of any run of main_app, whatever  *)
(* the order of first loads, clicks on "new conversation", clicks on a     *)
(* thread and plain reruns, current_thread_id is not None and is a key of  *)
(* threads.  A step that creates a conversation adds one thread that was   *)
(* not there, with the title of a new conversation and no messages, makes  *)
(* it current, and leaves every other thread as it was.                    *)
(***************************************************************************)
C25_Selected ==
    /\ fpc \in {"select", "chat", "end"} => current_thread_id # JNull
    /\ current_thread_id # JNull => current_thread_id \in DOMAIN threads

C25_Created ==
    (fpc = "sidebar" /\ DOMAIN threads' # DOMAIN threads) =>
        \E new_id \in DOMAIN threads' \ DOMAIN threads :
            /\ DOMAIN threads' = DOMAIN threads \cup {new_id}
            /\ threads'[new_id] = [title |-> NewTitle, messages |-> <<>>]
            /\ current_thread_id' = new_id
            /\ \A k \in DOMAIN threads : threads'[k] = threads[k]

C25_CurrentThread == []C25_Selected /\ [][C25_Created]_vars

\* A new conversation is current beside a thread that has messages.
C25_Witness ==
    /\ fpc = "select"
    /\ Cardinality(DOMAIN threads) = 2
    /\ threads[current_thread_id] = [title |-> NewTitle, messages |-> <<>>]
    /\ \E k \in DOMAIN threads : Len(threads[k].messages) = 2

(***************************************************************************)
(* C26.  The session list is fetched from the memory store at most once in *)
(* a UI session: memory_sessions_loaded is set by the first run and never  *)
(* reset, and nothing is fetched once it is set.  The merge of the fetched *)
(* sessions overwrites no thread: a thread that existed keeps its title    *)
(* and messages, and a session id that occurs twice in the list keeps the  *)
(* thread made of its first occurrence.                                    *)
(***************************************************************************)
FirstOf(memory_sessions, id) ==
    memory_sessions[CHOOSE i \in DOMAIN memory_sessions :
                       /\ Field(memory_sessions[i], "sessionId") = id
                       /\ \A j \in 1..(i - 1) : Field(memory_sessions[j], "sessionId") # id]

C26_Once ==
    /\ Len(fetched) <= 1
    /\ fetched # <<>> => memory_sessions_loaded
    /\ fpc # "load" => memory_sessions_loaded

C26_Merged ==
    /\ memory_sessions_loaded => memory_sessions_loaded' /\ fetched' = fetched
    /\ fetched' # fetched =>
           /\ \A k \in DOMAIN threads : k \in DOMAIN threads' /\ threads'[k] = threads[k]
           /\ \A id \in DOMAIN threads' \ DOMAIN threads :
                  LET created_at == Field(FirstOf(fetched'[1], id), "createdAt") IN
                  /\ threads'[id].messages = <<>>
                  /\ threads'[id].title =
                         IF created_at = Absent THEN PastTitle
                         ELSE IF created_at.t = "datetime" THEN <<created_at.s>>
                         ELSE <<"2025-02-02">>

C26_FetchedOnce == []C26_Once /\ [][C26_Merged]_vars

\* The session of the first thread id came twice, and later runs have not
\* fetched again.
C26_Witness ==
    /\ Len(fetched) = 1
    /\ Len(fetched[1]) = 2
    /\ Field(fetched[1][1], "sessionId") = Field(fetched[1][2], "sessionId")
    /\ Field(fetched[1][1], "createdAt") # Field(fetched[1][2], "createdAt")
    /\ fetched[1][1] \in StoredSessions
    /\ threads[ThreadIds[1]].title = <<"2025-01-01">>
    /\ sent # <<>>
    /\ fpc = "sidebar"

(***************************************************************************)
(* C27.  When a page request of list_memory_sessions, list_session_events, *)
(* list_sessions or list_messages raises, the function returns the empty   *)
(* list and raises nothing: the items of the pages fetched before are      *)
(* dropped, not returned as a partial result.                              *)
(***************************************************************************)
C27_Returned ==
    loop \in {"list_memory_sessions", "list_session_events", "list_sessions", "list_messages"} =>
        /\ mpc # "raised"
        /\ mpc = "failed" => result = <<>>

C27_RequestRaises ==
    (/\ loop \in {"list_memory_sessions", "list_session_events", "list_sessions", "list_messages"}
     /\ mpc = "request" /\ mpc' # "request" /\ requests' = requests) =>
        mpc' = "failed" /\ result' = <<>>

C27_EmptyOnFailure == []C27_Returned /\ [][C27_RequestRaises]_vars

\* The second request raised after a first page with items.
C27_Witness ==
    /\ loop = "list_memory_sessions"
    /\ mpc = "failed"
    /\ Len(requests) = 1
    /\ collected = <<JStr("s1"), JStr("s2")>>
    /\ result = <<>>
====
